---- MODULE Spec2Model ----
(***************************************************************************)
(* A model of the LLM Product Profiler: the generator core                 *)
(* (ProductProfileGenerator), its client of the generative collaborator    *)
(* (OpenAIService) with the localStorage cache, and the profile request    *)
(* that sequences competitor resolution, structured data and narrative.    *)
(***************************************************************************)
EXTENDS Integers, Sequences, FiniteSets, TLC

VARIABLES
    useAI,          \* ProductProfileGenerator.useAI of the one generator of the block
    probe,          \* what the health endpoint answered to the constructor's isConfigured()
    clock,          \* Date.now(), in hours
    cache,          \* localStorage: key -> stored entry, or NoEntry
    extractedData,  \* ProductProfileGenerator.extractedData (shared by all calls)
    pc,             \* per generateProfile call: where the call stands
    data,           \* per call: the record `data` of generateProfile
    net,            \* per call: the request in flight to the worker
    profile,        \* per call: the profile under construction / returned
    started,        \* number of generateProfile calls begun so far
    trail,          \* per call: which branches the call took (observation only)
    origin,         \* per cache key: the product whose call stored the entry (observation only)
    vin,            \* input of the normalisation specification
    vout            \* its result

vars == <<useAI, probe, clock, cache, extractedData, pc, data, net, profile,
          started, trail, origin, vin, vout>>

-----------------------------------------------------------------------------
(* Bounds of the model. *)

MaxClock == 24      \* the clock stops advancing here (hours)
MaxStarted == 2     \* generateProfile calls begun in one behaviour
MaxComps == 2       \* competitors in one generative response (normalisation spec)
MaxChars == 9       \* characters of a text given to truncateToWordCount
TruncMin == 1       \* the `min` the truncation specification calls it with
TruncMax == 3       \* the `max` the truncation specification calls it with
MaxItems == 2       \* elements of one kind in a document, enumerated exhaustively
MaxRun == 12        \* items of the longest feature list of a document
MaxCompatible == 12 \* compatible products of a record

TickHours == {12}   \* the steps by which the clock advances

Calls == {"A", "B"} \* the generateProfile calls that may be in progress together
Sequential == {"A"} \* one call at a time: the next begins when the last has ended

-----------------------------------------------------------------------------
(* JavaScript values.  Every value is a record tagged with its type, so    *)
(* that truthiness, property access and method calls behave as in the      *)
(* language.                                                               *)

Undefined == [t |-> "undefined"]
Null == [t |-> "null"]
Str(s) == [t |-> "string", v |-> s]
\* a string held character by character (where the code inspects the characters)
Text(cs) == [t |-> "string", cs |-> cs]
\* a string that is the text of a JSON document: what JSON.parse makes of it
JsonText(s, parsed) == [t |-> "string", v |-> s, json |-> parsed]
\* a string held as the sequence of its sentences
Prose(sentences) == [t |-> "string", sentences |-> sentences]
\* an object without members
EmptyObject == [t |-> "object", v |-> [k \in {} |-> Null]]
Num(n) == [t |-> "number", v |-> n]
Bool(b) == [t |-> "boolean", v |-> b]
Arr(s) == [t |-> "array", v |-> s]
Obj(f) == [t |-> "object", v |-> f]
\* a pending or settled Promise object (what an async function returns)
PromiseOf(x) == [t |-> "promise", v |-> x]
\* a function object, such as a member inherited from Object.prototype
Fn(n, len) == [t |-> "function", v |-> n, length |-> len]

\* ToBoolean of the language: used by !x, x || y, x ? a : b, if (x)
Truthy(x) ==
    CASE x.t = "undefined" -> FALSE
      [] x.t = "null" -> FALSE
      [] x.t = "string" -> IF "cs" \in DOMAIN x THEN x.cs # <<>>
                           ELSE IF "sentences" \in DOMAIN x THEN x.sentences # <<>>
                           ELSE x.v # ""
      [] x.t = "number" -> x.v # 0
      [] x.t = "boolean" -> x.v
      [] OTHER -> TRUE

\* x || y
OrElse(x, y) == IF Truthy(x) THEN x ELSE y

\* The outcome of evaluating an expression: a value, or a thrown exception.
Ok(x) == [threw |-> FALSE, val |-> x]
Threw(e) == [threw |-> TRUE, err |-> e]

\* obj.key: throws on null and undefined, undefined when the key is missing
Get(o, key) ==
    IF o.t \in {"undefined", "null"} THEN Threw("TypeError")
    ELSE IF o.t = "object" /\ key \in DOMAIN o.v THEN Ok(o.v[key])
    ELSE Ok(Undefined)

\* arr[i], with i counted from 0
Index(a, i) ==
    IF a.t \in {"undefined", "null"} THEN Threw("TypeError")
    ELSE IF a.t = "array" /\ i + 1 <= Len(a.v) THEN Ok(a.v[i + 1])
    ELSE Ok(Undefined)

\* evaluate F on the value of r, unless r threw
Then(r, F(_)) == IF r.threw THEN r ELSE F(r.val)

\* JSON.parse(x): x is converted to a string first
JSONParse(x) ==
    CASE x.t = "string" -> IF "json" \in DOMAIN x THEN Ok(x.json) ELSE Threw("SyntaxError")
      [] x.t = "null" -> Ok(Null)
      [] x.t \in {"number", "boolean"} -> Ok(x)
      [] OTHER -> Threw("SyntaxError")

-----------------------------------------------------------------------------
(* Characters and String.prototype.toLowerCase *)

UpperLetters == <<"A","B","C","D","E","F","G","H","I","J","K","L","M",
                  "N","O","P","Q","R","S","T","U","V","W","X","Y","Z">>
LowerLetters == <<"a","b","c","d","e","f","g","h","i","j","k","l","m",
                  "n","o","p","q","r","s","t","u","v","w","x","y","z">>

LowerChar(c) ==
    IF \E i \in 1..26 : UpperLetters[i] = c
    THEN LowerLetters[CHOOSE i \in 1..26 : UpperLetters[i] = c]
    ELSE c

ToLowerCase(cs) == [i \in 1..Len(cs) |-> LowerChar(cs[i])]

premium == <<"p","r","e","m","i","u","m">>
comparable == <<"c","o","m","p","a","r","a","b","l","e">>
budget == <<"b","u","d","g","e","t">>

-----------------------------------------------------------------------------
(* OpenAIService *)

enableCache == TRUE
cacheTTL == 24      \* 24 * 60 * 60 * 1000 ms, in hours

\* validatePositioning(positioning)
validatePositioning(positioning) ==
    LET valid == {premium, comparable, budget}
        p == OrElse(positioning, Text(<<>>))
    IN  \* only strings have toLowerCase
        IF p.t # "string" THEN Threw("TypeError")
        ELSE LET normalized == ToLowerCase(p.cs) IN
             IF normalized \in valid THEN Ok(Text(normalized)) ELSE Ok(Text(comparable))

\* a variant that takes price and torque over from the response
NormalizeOneWithNumbers(comp) ==
    IF comp.t \in {"undefined", "null"} THEN Threw("TypeError")
    ELSE Then(validatePositioning(Get(comp, "positioning").val), LAMBDA pos :
           Ok(Obj([brand |-> OrElse(Get(comp, "brand").val, Str("Unknown")),
                   model |-> OrElse(Get(comp, "model").val, Str("")),
                   keyFeature |-> OrElse(Get(comp, "keyFeature").val, Str("")),
                   positioning |-> pos,
                   price |-> OrElse(Get(comp, "price").val, Num(0)),
                   torque |-> OrElse(Get(comp, "torque").val, Num(0)),
                   battery |-> OrElse(Get(comp, "battery").val, Str("")),
                   warranty |-> OrElse(Get(comp, "warranty").val, Str("3 Years"))])))

\* the object normalizeCompetitorData builds of one competitor of the response
NormalizeOne(comp) ==
    IF comp.t \in {"undefined", "null"} THEN Threw("TypeError")
    ELSE Then(validatePositioning(Get(comp, "positioning").val), LAMBDA pos :
           Ok(Obj([brand |-> OrElse(Get(comp, "brand").val, Str("Unknown")),
                   model |-> OrElse(Get(comp, "model").val, Str("")),
                   keyFeature |-> OrElse(Get(comp, "keyFeature").val, Str("")),
                   positioning |-> pos,
                   price |-> Num(0),
                   torque |-> Num(0),
                   battery |-> OrElse(Get(comp, "battery").val, Str("")),
                   warranty |-> OrElse(Get(comp, "warranty").val, Str("3 Years"))])))

\* normalizeCompetitorData(competitors): competitors.map(...)
normalizeCompetitorData(competitors) ==
    IF competitors.t # "array" THEN Threw("TypeError")
    ELSE LET each == [i \in 1..Len(competitors.v) |-> NormalizeOne(competitors.v[i])] IN
         IF \E i \in 1..Len(competitors.v) : each[i].threw THEN Threw("TypeError")
         ELSE Ok(Arr([i \in 1..Len(competitors.v) |-> each[i].val]))

\* localStorage holds no entry under a key
NoEntry == [stored |-> FALSE]

\* JSON.stringify({data, timestamp}): a member whose value is undefined is left out
StoredEntry(d, now) ==
    IF d.t = "undefined"
    THEN [stored |-> TRUE, json |-> [timestamp |-> now]]
    ELSE [stored |-> TRUE, json |-> [data |-> d, timestamp |-> now]]

\* const { data, timestamp } = JSON.parse(cached)
EntryData(e) == IF "data" \in DOMAIN e.json THEN e.json.data ELSE Undefined

\* a variant of the freshness test that still accepts an entry of exactly the TTL
IsFreshInclusive(age) == age <= cacheTTL

\* the freshness test of getCache
IsFresh(age) == age < cacheTTL

\* getCache(key) at time now: the value returned and the storage left behind
getCache(store, key, now) ==
    IF ~enableCache THEN [val |-> Null, store |-> store]
    ELSE IF ~store[key].stored THEN [val |-> Null, store |-> store]
    ELSE LET age == now - store[key].json.timestamp IN
         IF IsFresh(age)
         THEN [val |-> EntryData(store[key]), store |-> store]
         ELSE [val |-> Null, store |-> [store EXCEPT ![key] = NoEntry]]

\* setCache(key, data) at time now: the storage left behind
setCache(store, key, d, now) ==
    IF ~enableCache THEN store
    ELSE [store EXCEPT ![key] = StoredEntry(d, now)]

\* cacheKey of identifyCompetitors
CompetitorsKey(productData) == "competitors_" \o productData.name

\* cacheKey of generateProductNarrative
NarrativeKey(productData) == "narrative_" \o productData.name \o "_" \o productData.brand

(* What the worker may answer to the POST of callAPI. *)
NotJson == [t |-> "notjson"]
NetworkError == [kind |-> "rejected"]
HttpResponse(ok, body) == [kind |-> "response", ok |-> ok, body |-> body]
\* the body of a chat completion whose message carries `content`
Completion(content) ==
    Obj([choices |-> Arr(<<Obj([message |-> Obj([content |-> content])])>>)])
\* the body of a chat completion whose message carries no content member
CompletionNoContent ==
    Obj([choices |-> Arr(<<Obj([message |-> Obj([role |-> Str("assistant")])])>>)])

\* response.json(): rejects when the body is not JSON
ResponseJson(resp) ==
    IF resp.body = NotJson THEN Threw("SyntaxError") ELSE Ok(resp.body)

\* callAPI(messages, options), given what the worker answered: the content
\* returned, or the exception thrown
callAPI(resp) ==
    IF resp.kind = "rejected" THEN Threw("FetchFailed")
    ELSE IF ~resp.ok
    THEN \* const error = await response.json(); throw new Error(...)
         Then(ResponseJson(resp), LAMBDA error : Threw("WorkerApiError"))
    ELSE Then(ResponseJson(resp), LAMBDA result :
         Then(Get(result, "choices"), LAMBDA choices :
         Then(Index(choices, 0), LAMBDA first :
         Then(Get(first, "message"), LAMBDA message :
         Get(message, "content")))))

\* identifyCompetitors after the cache miss, given what the worker answered:
\* the normalized list, or the exception thrown
identifyCompetitors(resp) ==
    Then(callAPI(resp), LAMBDA response :
    Then(JSONParse(response), LAMBDA parsed :
    Then(Get(parsed, "competitors"), LAMBDA cs :
    normalizeCompetitorData(OrElse(cs, Arr(<<>>))))))

-----------------------------------------------------------------------------
(* ProductProfileGenerator: the static catalog and the product records *)

\* one entry of COMPETITOR_DATABASE (prices in cents)
CatalogCompetitor(brand, model, price, torque, battery, warranty, positioning) ==
    Obj([brand |-> Str(brand), model |-> Str(model), price |-> Num(price),
         torque |-> Num(torque), battery |-> Str(battery),
         warranty |-> Str(warranty), positioning |-> Text(positioning)])

COMPETITOR_DATABASE ==
    [n \in {"PowerMax ProDrill 2000X", "TitanForce MegaDrill Pro 3000"} |->
        IF n = "PowerMax ProDrill 2000X"
        THEN Arr(<<CatalogCompetitor("TitanForce", "MegaDrill Pro 3000", 24999, 820,
                                     "24V", "5 Years", premium),
                   CatalogCompetitor("Milwaukee", "M18 Compact Drill", 17999, 650,
                                     "18V", "3 Years", comparable)>>)
        ELSE Arr(<<CatalogCompetitor("PowerMax", "ProDrill 2000X", 17999, 650,
                                     "20V", "3 Years", budget),
                   CatalogCompetitor("DeWalt", "DCD999", 29999, 1200,
                                     "20V MAX", "3 Years", premium)>>)]

\* The members every object literal inherits from Object.prototype, with the
\* `length` of each (its declared parameter count).
ObjectPrototypeMembers ==
    [n \in {"constructor", "hasOwnProperty", "toString", "valueOf"} |->
        IF n \in {"constructor", "hasOwnProperty"} THEN 1 ELSE 0]

\* COMPETITOR_DATABASE[name]: an own key, else an inherited member, else undefined
CatalogLookup(name) ==
    IF name \in DOMAIN COMPETITOR_DATABASE THEN COMPETITOR_DATABASE[name]
    ELSE IF name \in DOMAIN ObjectPrototypeMembers
    THEN Fn(name, ObjectPrototypeMembers[name])
    ELSE Undefined

\* the fallback of getCompetitors: COMPETITOR_DATABASE[productData.name] || []
StaticCompetitors(productData) == OrElse(CatalogLookup(productData.name), Arr(<<>>))

\* x.length
LengthOf(x) ==
    IF x.t = "array" THEN Num(Len(x.v))
    ELSE IF x.t = "function" THEN Num(x.length)
    ELSE Undefined

\* a rating object as extractRating returns it (the score in tenths)
Rating(score, maxScore, reviewCount) ==
    Obj([score |-> score, maxScore |-> Num(maxScore), reviewCount |-> Num(reviewCount)])

\* the record extractProductData assembles of a document; the competitors are
\* fetched later
ProductRecord(name, brand, rating, compatibility) ==
    [name |-> name, rating |-> rating, image |-> Null, tagline |-> "",
     specs |-> <<>>, features |-> <<>>, useCases |-> <<>>, pros |-> <<>>,
     cons |-> <<>>, compatibility |-> compatibility, alternatives |-> <<>>,
     brand |-> brand, category |-> "General Product",
     crossBrandCompetitors |-> Arr(<<>>)]

\* The records of the documents the model generates profiles of.
Products ==
    { ProductRecord("PowerMax ProDrill 2000X", "PowerMax", Rating(Num(46), 5, 1204), <<>>),
      ProductRecord("PowerMax ProDrill 2000X", "Acme", Null, <<>>),
      ProductRecord("constructor", "Acme", Rating(Null, 5, 0), <<>>) }

NoData == [name |-> "", brand |-> ""]

-----------------------------------------------------------------------------
(* ProductProfileGenerator: comparison, structured data and narrative.     *)
(* A text is the sequence of its sentences; each sentence is recorded by    *)
(* the template that produced it and the values inserted in it.            *)

\* the first n elements of a sequence (Array.prototype.slice(0, n))
Take(seq, n) == SubSeq(seq, 1, IF Len(seq) < n THEN Len(seq) ELSE n)

\* `${competitor.brand} ${competitor.model}`
CompetitorKey(competitor) ==
    Get(competitor, "brand").val.v \o " " \o Get(competitor, "model").val.v

\* data.specs.warranty
WarrantySpec(d) ==
    IF \E i \in 1..Len(d.specs) : d.specs[i].key = "warranty"
    THEN Str(d.specs[CHOOSE i \in 1..Len(d.specs) : d.specs[i].key = "warranty"].value)
    ELSE Undefined

\* the spec values of the model that contain the character 5
ValuesWithFive == {"5 Years"}

\* the features of the model that mention advanced, premium, enhanced or intelligent
PremiumWorded == {"Advanced torque control for precision"}

\* a variant that counts five compatible products as an ecosystem already
HasEcosystemFromFive(n) == n >= 5

\* data.compatibility.length > 5, the condition of the ecosystem sentence
HasEcosystem(n) == n > 5

\* data.compatibility.length > 10, the condition of the broader-ecosystem sentence
HasBroaderEcosystem(n) == n > 10

\* a variant that keeps the first two features
MyFeaturesFirstTwo(d) == Take(d.features, 2)

\* const myFeatures of generateCompetitorComparison: data.features.slice(0, 3),
\* as the sequence join(', ') writes
MyFeatures(d) == Take(d.features, 3)

\* the comparison text generateCompetitorComparison writes of one competitor
ComparisonText(d, competitor) ==
    LET pos == Get(competitor, "positioning").val
        keyFeature == Get(competitor, "keyFeature").val
        warranty == WarrantySpec(d)
        myFeatures == MyFeatures(d)
        myKeySpecs == Take(d.specs, 2)
        n == Len(d.compatibility)
    IN
    IF pos = Text(premium) THEN
        <<IF myKeySpecs # <<>> THEN [c |-> "strong performance with", specs |-> myKeySpecs]
                                ELSE [c |-> "strong, reliable performance"]>>
        \o (IF HasEcosystem(n) THEN <<[c |-> "excellent ecosystem compatibility", n |-> n]>>
                               ELSE <<>>)
        \o <<IF Truthy(keyFeature) THEN [c |-> "while competitor focuses on", keyFeature |-> keyFeature]
                                   ELSE [c |-> "ideal without premium-tier features"]>>
    ELSE IF pos = Text(comparable) THEN
        <<[c |-> "comparable in core functionality"]>>
        \o (IF HasBroaderEcosystem(n) THEN <<[c |-> "broader ecosystem", n |-> n]>> ELSE <<>>)
        \o (IF Truthy(warranty) /\ warranty.v \in ValuesWithFive
            THEN <<[c |-> "superior warranty coverage", warranty |-> warranty]>> ELSE <<>>)
        \o <<IF Len(d.features) > 5 /\ myFeatures # <<>>
              THEN [c |-> "features include", features |-> myFeatures]
              ELSE [c |-> "reliable performance for intended use cases"]>>
    ELSE IF pos = Text(budget) THEN
        LET premiumFeatures == SelectSeq(d.features, LAMBDA f : f \in PremiumWorded) IN
        <<[c |-> "compared to budget-oriented"],
          IF Len(premiumFeatures) > 0
          THEN [c |-> "provides feature", feature |-> premiumFeatures[1]]
          ELSE [c |-> "enhanced capabilities and features"]>>
        \o (IF Truthy(warranty) THEN <<[c |-> "includes warranty", warranty |-> warranty]>>
                                ELSE <<>>)
        \o <<[c |-> "worthwhile upgrade"]>>
    ELSE <<>>

\* comparison[key] = text on an insertion-ordered object: a key already present
\* keeps its place and takes the new value
PutOrdered(m, key, text) ==
    IF \E i \in 1..Len(m) : m[i].key = key
    THEN [i \in 1..Len(m) |-> IF m[i].key = key THEN [key |-> key, text |-> text] ELSE m[i]]
    ELSE Append(m, [key |-> key, text |-> text])

RECURSIVE ComparisonFold(_, _, _, _)
\* the forEach of generateCompetitorComparison from the i-th competitor on
ComparisonFold(d, competitors, i, acc) ==
    IF i > Len(competitors) THEN acc
    ELSE ComparisonFold(d, competitors, i + 1,
                        PutOrdered(acc, CompetitorKey(competitors[i]),
                                   ComparisonText(d, competitors[i])))

\* generateCompetitorComparison(data): the comparison object as the ordered
\* sequence of its entries, or the exception thrown
generateCompetitorComparison(d) ==
    LET competitors == d.crossBrandCompetitors IN
    IF ~Truthy(competitors) \/ LengthOf(competitors) = Num(0) THEN Ok(<<>>)
    ELSE IF competitors.t # "array" THEN Threw("TypeError")  \* no forEach
    ELSE Ok(ComparisonFold(d, competitors.v, 1, <<>>))

\* the aggregateRating member of the structured data
AggregateRating(d) ==
    IF Truthy(d.rating)
    THEN [type |-> "AggregateRating",
          ratingValue |-> Get(d.rating, "score").val,
          bestRating |-> Get(d.rating, "maxScore").val,
          reviewCount |-> Get(d.rating, "reviewCount").val]
    ELSE Null

\* generateStructuredData(data): the object, as the function from its keys to
\* their values, or the exception thrown
generateStructuredData(d) ==
    LET structuredData ==
            [context |-> "https://schema.org",
             type |-> "Product",
             name |-> d.name,
             description |-> d.tagline,
             brand |-> [type |-> "Brand", name |-> d.brand],
             category |-> d.category,
             offers |-> [type |-> "Offer", availability |-> "https://schema.org/InStock"],
             aggregateRating |-> AggregateRating(d),
             additionalProperty |->
                 [i \in 1..Len(d.specs) |->
                     [type |-> "PropertyValue", name |-> d.specs[i].key,
                      value |-> d.specs[i].value]],
             features |-> d.features,
             useCases |-> d.useCases,
             pros |-> d.pros,
             cons |-> d.cons,
             isCompatibleWith |-> d.compatibility,
             isRelatedTo |-> d.alternatives]
    IN Then(generateCompetitorComparison(d), LAMBDA competitorComparison :
            IF Len(competitorComparison) > 0
            THEN Ok(("competitor_comparison" :> competitorComparison) @@ structuredData)
            ELSE Ok(structuredData))

\* the body of generateCompetitorNarrative on the list `competitors`: the
\* competitor paragraph (empty when there is no competitor), or the exception
\* thrown
CompetitorParagraph(d, competitors) ==
    IF ~Truthy(competitors) \/ LengthOf(competitors) = Num(0) THEN Ok(<<>>)
    ELSE Then(Index(competitors, 0), LAMBDA mainCompetitor :
         Then(Get(mainCompetitor, "brand"), LAMBDA brand :
         LET compKey == CompetitorKey(mainCompetitor)
             pos == Get(mainCompetitor, "positioning").val
             n == Len(d.compatibility)
         IN
         IF pos = Text(premium) THEN
            Ok(<<[s |-> "compared to", key |-> compKey],
                 IF Len(d.features) > 0
                 THEN [s |-> "strong performance with key features",
                       features |-> Take(d.features, 2)]
                 ELSE [s |-> "strong, reliable performance"]>>
               \o (IF n > 5 THEN <<[s |-> "excellent ecosystem compatibility", n |-> n]>>
                            ELSE <<>>))
         ELSE IF pos = Text(comparable) THEN
            Ok(<<[s |-> "compared to", key |-> compKey],
                 [s |-> "both products offer similar capabilities"]>>
               \o (IF n > 10 THEN <<[s |-> "broader ecosystem support", n |-> n]>>
                             ELSE <<>>))
         ELSE
            Ok(<<[s |-> "compared to", key |-> compKey],
                 [s |-> "enhanced features and capabilities"]>>)))

\* a variant that takes the competitors from the static catalog whatever the
\* record holds
generateCompetitorNarrativeOfCatalog(d) ==
    CompetitorParagraph(d, StaticCompetitors(d))

\* generateCompetitorNarrative(data)
generateCompetitorNarrative(d) ==
    CompetitorParagraph(d, d.crossBrandCompetitors)

\* data.category.toLowerCase(), for the categories of the model
CategoryLowerCase(category) ==
    CASE category = "General Product" -> "general product"
      [] category = "Power Tools" -> "power tools"
      [] OTHER -> category

\* the template branch of generateFactualNarrative(data), or the exception thrown
FallbackNarrative(d) ==
    LET rating == d.rating
        narrative ==
            <<[s |-> "intro", name |-> d.name, category |-> CategoryLowerCase(d.category),
               brand |-> d.brand]>>
            \o (IF Len(d.specs) > 0
                THEN <<[s |-> "key specifications", specs |-> Take(d.specs, 5)]>> ELSE <<>>)
            \o (IF Len(d.features) > 0
                THEN <<[s |-> "notable features", features |-> Take(d.features, 3)]>>
                ELSE <<>>)
            \o (IF Truthy(rating) /\ Truthy(Get(rating, "score").val)
                THEN <<[s |-> "customer rating", score |-> Get(rating, "score").val,
                        maxScore |-> Get(rating, "maxScore").val,
                        reviewCount |-> Get(rating, "reviewCount").val]>>
                ELSE <<>>)
    IN \* every text of the model has fewer than 300 words, so truncateToWordCount
       \* returns it as it is (words.length <= max)
       Then(generateCompetitorNarrative(d), LAMBDA competitorNarrative :
            Ok(Prose(narrative \o competitorNarrative)))

-----------------------------------------------------------------------------
(* What the worker may answer *)

\* a competitor as the generative response describes it
ResponseCompetitor(positioning) ==
    Obj([brand |-> Str("DeWalt"), model |-> Str("DCD999"),
         keyFeature |-> Str("brushless motor"), positioning |-> positioning,
         price |-> Num(29999), torque |-> Num(1200)])

\* competitors of a response that leave members out, or give them empty
SparseCompetitors ==
    { Obj([positioning |-> Text(premium), price |-> Num(24999), torque |-> Num(820)]),
      Obj([model |-> Str("M18 Compact Drill"), positioning |-> Text(budget)]),
      Obj([brand |-> Str(""), model |-> Str(""), keyFeature |-> Null,
           positioning |-> Text(comparable), price |-> Str("$179.99")]) }

\* the message contents the worker may return to identifyCompetitors
CompetitorContents ==
    { JsonText("{competitors:[DeWalt DCD999 Premium]}",
               Obj([competitors |-> Arr(<<ResponseCompetitor(Text(<<"P","r","e","m","i","u","m">>))>>)])),
      JsonText("{}", EmptyObject),
      JsonText("{competitors:'none'}", Obj([competitors |-> Str("none")])),
      JsonText("{competitors:[null]}", Obj([competitors |-> Arr(<<Null>>)])),
      JsonText("{competitors:[{positioning:5}]}",
               Obj([competitors |-> Arr(<<ResponseCompetitor(Num(5))>>)])),
      Str("I cannot help with that"),
      Null }

\* the message contents the worker may return to generateProductNarrative
NarrativeContents == { Str("Looking for a drill? ..."), Str("") }

\* the answers that are no completion at all
FailedAnswers ==
    { NetworkError,
      HttpResponse(FALSE, Obj([error |-> Str("rate limited")])),
      HttpResponse(FALSE, NotJson),
      HttpResponse(TRUE, NotJson),
      HttpResponse(TRUE, EmptyObject) }

CompetitorAnswers ==
    FailedAnswers \cup {HttpResponse(TRUE, CompletionNoContent)}
        \cup {HttpResponse(TRUE, Completion(c)) : c \in CompetitorContents}

NarrativeAnswers ==
    FailedAnswers \cup {HttpResponse(TRUE, CompletionNoContent)}
        \cup {HttpResponse(TRUE, Completion(c)) : c \in NarrativeContents}

\* what the health endpoint may answer to isConfigured()
HealthAnswers == {"ok", "not ok"}

-----------------------------------------------------------------------------
(* The generator and its generateProfile calls *)

\* isConfigured(): an async function, so the caller receives a Promise of
\* response.ok (false when the fetch rejects)
isConfigured(health) == PromiseOf(Bool(health = "ok"))

\* this.useAI as the constructor leaves it, given options.useAI !== false
ConstructedUseAI(optionUseAI, health) ==
    IF ~Truthy(isConfigured(health)) THEN FALSE ELSE optionUseAI

\* x && y
AndAlso(x, y) == IF Truthy(x) THEN y ELSE x

CacheKeys ==
    {CompetitorsKey(p) : p \in Products} \cup {NarrativeKey(p) : p \in Products}

NoRequest == [op |-> "none"]
\* a POST of callAPI in flight; `answered` tells whether the worker will answer it
Request(op, willAnswer) == [op |-> op, willAnswer |-> willAnswer]

\* the "Customer Rating: score/maxScore from reviewCount reviews" line of the
\* user message of generateProductNarrative: the values it interpolates, or
\* nothing
RatingPromptLine(productData) ==
    IF Truthy(productData.rating)
    THEN <<[score |-> Get(productData.rating, "score").val,
            maxScore |-> Get(productData.rating, "maxScore").val,
            reviewCount |-> Get(productData.rating, "reviewCount").val]>>
    ELSE <<>>

\* the POST of generateProductNarrative, with the rating line of its prompt
NarrativeRequest(productData, willAnswer) ==
    [op |-> "narrative", willAnswer |-> willAnswer,
     ratingLine |-> RatingPromptLine(productData)]

NoProfile == [t |-> "none"]
\* the object generateProfile returns (generatedAt left out)
Profile(metadata, structuredData, factual, rawData) ==
    [metadata |-> metadata, structuredData |-> structuredData,
     narratives |-> [factual |-> factual], rawData |-> rawData]

\* the metadata member of the profile
Metadata(ai, health) ==
    [version |-> "1.0.0", aiPowered |-> AndAlso(Bool(ai), isConfigured(health))]

\* A step of generateProfile leaves the call at `pc` with these values.
Outcome(p, d, prof, request, store) ==
    [pc |-> p, data |-> d, profile |-> prof, net |-> request, cache |-> store]

\* generateProfile from the point where data.crossBrandCompetitors is set:
\* the profile literal up to the await of generateNarrative
AfterCompetitors(d, store, now, ai, willAnswer) ==
    LET metadata == Metadata(ai, probe)
        structured == generateStructuredData(d)
    IN
    IF structured.threw THEN Outcome("failed", d, NoProfile, NoRequest, store)
    ELSE IF ai
    THEN \* generateProductNarrative: the cache, then the call
         LET cached == getCache(store, NarrativeKey(d), now) IN
         IF Truthy(cached.val)
         THEN Outcome("done", d, Profile(metadata, structured.val, cached.val, d),
                      NoRequest, cached.store)
         ELSE Outcome("narrative", d, Profile(metadata, structured.val, Undefined, d),
                      NarrativeRequest(d, willAnswer), cached.store)
    ELSE LET fallback == FallbackNarrative(d) IN
         IF fallback.threw THEN Outcome("failed", d, NoProfile, NoRequest, store)
         ELSE Outcome("done", d, Profile(metadata, structured.val, fallback.val, d),
                      NoRequest, store)

\* generateProfile(doc) up to its first await that leaves the thread:
\* extractProductData, then getCompetitors
BeginProfile(extracted, store, now, ai, willAnswer) ==
    IF ai
    THEN \* identifyCompetitors: the cache, then the call
         LET cached == getCache(store, CompetitorsKey(extracted), now) IN
         IF Truthy(cached.val)
         THEN AfterCompetitors([extracted EXCEPT !.crossBrandCompetitors = cached.val],
                               cached.store, now, ai, willAnswer)
         ELSE Outcome("competitors", extracted, NoProfile,
                      Request("competitors", willAnswer), cached.store)
    ELSE AfterCompetitors(
            [extracted EXCEPT !.crossBrandCompetitors = StaticCompetitors(extracted)],
            store, now, ai, willAnswer)

\* a variant of getCompetitors that stores the list it falls back to
ResolveCompetitorsStoringFallback(d, resp, store, now) ==
    LET found == identifyCompetitors(resp) IN
    IF ~found.threw
    THEN [competitors |-> found.val, caught |-> FALSE,
          store |-> setCache(store, CompetitorsKey(d), found.val, now)]
    ELSE [competitors |-> StaticCompetitors(d), caught |-> TRUE,
          store |-> setCache(store, CompetitorsKey(d), StaticCompetitors(d), now)]

\* getCompetitors(data) resumed with the worker's answer: the competitors
\* returned, whether the catch branch ran, and the storage left behind
ResolveCompetitors(d, resp, store, now) ==
    LET found == identifyCompetitors(resp) IN
    IF ~found.threw
    THEN [competitors |-> found.val, caught |-> FALSE,
          store |-> setCache(store, CompetitorsKey(d), found.val, now)]
    ELSE [competitors |-> StaticCompetitors(d), caught |-> TRUE, store |-> store]

\* generateFactualNarrative(data) resumed with the worker's answer: the
\* narrative returned (or the exception thrown), whether the catch branch ran,
\* and the storage left behind
ResolveNarrative(d, resp, store, now) ==
    LET response == callAPI(resp) IN
    IF ~response.threw
    THEN [narrative |-> response, caught |-> FALSE,
          store |-> setCache(store, NarrativeKey(d), response.val, now)]
    ELSE [narrative |-> FallbackNarrative(d), caught |-> TRUE, store |-> store]

\* a variant in which the calls in flight work on the record kept in the
\* shared field this.extractedData, that is on the record of the latest call
ApplyShared(c, out) ==
    /\ pc' = [pc EXCEPT ![c] = out.pc]
    /\ data' = [x \in Calls |->
                   IF x = c \/ pc[x] \in {"competitors", "narrative"}
                   THEN out.data ELSE data[x]]
    /\ profile' = [profile EXCEPT ![c] = out.profile]
    /\ net' = [net EXCEPT ![c] = out.net]
    /\ cache' = out.cache

\* the locals of the call c after a step: const data, const profile, and the
\* request it awaits
Apply(c, out) ==
    /\ pc' = [pc EXCEPT ![c] = out.pc]
    /\ data' = [data EXCEPT ![c] = out.data]
    /\ profile' = [profile EXCEPT ![c] = out.profile]
    /\ net' = [net EXCEPT ![c] = out.net]
    /\ cache' = out.cache

-----------------------------------------------------------------------------
(* Observation of a call.  `trail` and `origin` record what happened; no    *)
(* operation of the program reads them.                                     *)

\* the product a record describes
Identity(d) == [name |-> d.name, brand |-> d.brand]
Nobody == [name |-> "", brand |-> ""]

\* the entry under `key` as the clock sees it, whatever getCache makes of it
EntryState(store, key, now) ==
    IF ~store[key].stored THEN "absent"
    ELSE IF now - store[key].json.timestamp < 24 THEN "fresh"
    ELSE "expired"

\* the kind of the worker's answer
AnswerClass(resp) ==
    IF resp.kind = "rejected" THEN "transport error"
    ELSE IF ~resp.ok THEN "non-2xx"
    ELSE IF resp.body = NotJson \/ resp.body = EmptyObject
              \/ resp.body = CompletionNoContent THEN "malformed body"
    ELSE "completion"

NoTrail ==
    [lookup |-> "none", competitors |-> "none", from |-> Nobody, answer |-> "none",
     nlookup |-> "none", narrative |-> "none", nfrom |-> Nobody, nanswer |-> "none",
     input |-> NoData, overlapped |-> FALSE]

\* the narrative stage as `out` shows it, entered with storage `store`
NarrativeStage(tr, out, store, org, now, ai) ==
    IF out.pc \in {"competitors", "failed"} THEN tr
    ELSE IF ~ai
    THEN [tr EXCEPT !.nlookup = "skipped", !.narrative = "template"]
    ELSE LET key == NarrativeKey(out.data) IN
         [tr EXCEPT !.nlookup = EntryState(store, key, now),
                    !.narrative = IF out.pc = "narrative" THEN "requested" ELSE "cached",
                    !.nfrom = IF out.pc = "narrative" THEN Nobody ELSE org[key]]

\* the competitor stage of a call that begins on product p
CompetitorStage(p, out, store, org, now, ai) ==
    IF ~ai
    THEN [NoTrail EXCEPT !.lookup = "skipped", !.competitors = "static", !.input = p]
    ELSE LET key == CompetitorsKey(p) IN
         [NoTrail EXCEPT !.input = p,
                         !.lookup = EntryState(store, key, now),
                         !.competitors = IF out.pc = "competitors" THEN "requested"
                                         ELSE "cached",
                         !.from = IF out.pc = "competitors" THEN Nobody ELSE org[key]]

-----------------------------------------------------------------------------
(* The profile request as a state machine *)

Init ==
    /\ \E optionUseAI \in BOOLEAN, health \in HealthAnswers :
          /\ probe = health
          /\ useAI = ConstructedUseAI(optionUseAI, health)
    /\ clock = 0
    /\ cache = [k \in CacheKeys |-> NoEntry]
    /\ extractedData = "none"
    /\ pc = [c \in Calls |-> "idle"]
    /\ data = [c \in Calls |-> NoData]
    /\ net = [c \in Calls |-> NoRequest]
    /\ profile = [c \in Calls |-> NoProfile]
    /\ started = 0
    /\ trail = [c \in Calls |-> NoTrail]
    /\ origin = [k \in CacheKeys |-> Nobody]
    /\ vin = Undefined
    /\ vout = NoProfile

\* the Generate button: generateProfile(doc) on the document of product p
Generate(c, p, willAnswer) ==
    /\ pc[c] \in {"idle", "done", "failed"}
    /\ started < MaxStarted
    /\ started' = started + 1
    /\ extractedData' = c
    /\ \E out \in {BeginProfile(p, cache, clock, useAI, willAnswer)} :
       /\ Apply(c, out)
       /\ trail' = [x \in Calls |->
             IF x = c
             THEN NarrativeStage(CompetitorStage(p, out, cache, origin, clock, useAI),
                                 out, cache, origin, clock, useAI)
             ELSE IF pc[x] \in {"competitors", "narrative"}
             THEN [trail[x] EXCEPT !.overlapped = TRUE]
             ELSE trail[x]]
    /\ UNCHANGED <<useAI, probe, clock, origin, vin, vout>>

\* the worker answers the POST of identifyCompetitors
CompetitorsSettle(c, resp, willAnswer) ==
    /\ pc[c] = "competitors"
    /\ net[c].willAnswer
    /\ \E resolved \in {ResolveCompetitors(data[c], resp, cache, clock)} :
       \E out \in {AfterCompetitors(
                     [data[c] EXCEPT !.crossBrandCompetitors = resolved.competitors],
                     resolved.store, clock, useAI, willAnswer)} :
       LET org == IF resolved.caught THEN origin
                  ELSE [origin EXCEPT ![CompetitorsKey(data[c])] = Identity(data[c])]
           tr == [trail[c] EXCEPT
                     !.answer = AnswerClass(resp),
                     !.competitors = IF resolved.caught THEN "fallback" ELSE "generated"]
       IN /\ Apply(c, out)
          /\ origin' = org
          /\ trail' = [trail EXCEPT ![c] =
                NarrativeStage(tr, out, resolved.store, org, clock, useAI)]
    /\ UNCHANGED <<useAI, probe, clock, extractedData, started, vin, vout>>

\* the worker answers the POST of generateProductNarrative
NarrativeSettle(c, resp) ==
    /\ pc[c] = "narrative"
    /\ net[c].willAnswer
    /\ \E resolved \in {ResolveNarrative(data[c], resp, cache, clock)} :
       /\ IF resolved.narrative.threw
          THEN Apply(c, Outcome("failed", data[c], NoProfile, NoRequest, resolved.store))
          ELSE Apply(c, Outcome("done", data[c],
                                [profile[c] EXCEPT
                                    !.narratives.factual = resolved.narrative.val],
                                NoRequest, resolved.store))
       /\ origin' = IF resolved.caught THEN origin
                    ELSE [origin EXCEPT ![NarrativeKey(data[c])] = Identity(data[c])]
       /\ trail' = [trail EXCEPT ![c].nanswer = AnswerClass(resp),
                                 ![c].narrative = IF resolved.caught THEN "template"
                                                  ELSE "generated"]
    /\ UNCHANGED <<useAI, probe, clock, extractedData, started, vin, vout>>

\* time passes
Tick(h) ==
    /\ clock + h <= MaxClock
    /\ clock' = clock + h
    /\ UNCHANGED <<useAI, probe, cache, extractedData, pc, data, net, profile,
                   started, trail, origin, vin, vout>>

Next ==
    \/ \E c \in Sequential, p \in Products, w \in BOOLEAN : Generate(c, p, w)
    \/ \E c \in Sequential, resp \in CompetitorAnswers, w \in BOOLEAN :
          CompetitorsSettle(c, resp, w)
    \/ \E c \in Sequential, resp \in NarrativeAnswers : NarrativeSettle(c, resp)
    \/ \E h \in TickHours : Tick(h)

Spec == Init /\ [][Next]_vars

\* The worker's answer, when there is one, arrives: the continuation of an
\* awaited fetch runs once the fetch settles.
FairSpec ==
    /\ Spec
    /\ \A c \in Sequential :
          /\ WF_vars(\E resp \in CompetitorAnswers, w \in BOOLEAN :
                        CompetitorsSettle(c, resp, w))
          /\ WF_vars(\E resp \in NarrativeAnswers : NarrativeSettle(c, resp))

-----------------------------------------------------------------------------
(* Normalisation of a generative response, taken alone: the inputs are the  *)
(* competitor lists a parsed response may hold.                             *)

\* the values a response may carry as a competitor's positioning
PositioningInputs ==
    { Text(premium), Text(comparable), Text(budget),
      Text(<<"P","r","e","m","i","u","m">>), Text(<<"B","U","D","G","E","T">>),
      Text(<<"l","u","x","u","r","y">>), Text(<<>>),
      Undefined, Null, Num(0), Num(5), Bool(FALSE), Bool(TRUE), EmptyObject }

\* the sequences over S of length at most n
SeqUpTo(S, n) == UNION {[1..k -> S] : k \in 0..n}

NoResult == [op |-> "none"]

InitNormalize ==
    /\ probe = "ok"
    /\ useAI = TRUE
    /\ clock = 0
    /\ cache = [k \in CacheKeys |-> NoEntry]
    /\ extractedData = "none"
    /\ pc = [c \in Calls |-> "idle"]
    /\ data = [c \in Calls |-> NoData]
    /\ net = [c \in Calls |-> NoRequest]
    /\ profile = [c \in Calls |-> NoProfile]
    /\ started = 0
    /\ trail = [c \in Calls |-> NoTrail]
    /\ origin = [k \in CacheKeys |-> Nobody]
    /\ vin \in {Arr(cs) : cs \in SeqUpTo({ResponseCompetitor(p) : p \in PositioningInputs}
                                            \cup SparseCompetitors, MaxComps)}
    /\ vout = NoResult

\* validatePositioning(comp.positioning) on the i-th competitor of the input
ValidateEach(i) ==
    /\ i \in 1..Len(vin.v)
    /\ LET positioning == Get(vin.v[i], "positioning").val IN
       vout' = [op |-> "validatePositioning", arg |-> positioning,
                res |-> validatePositioning(positioning)]
    /\ UNCHANGED <<useAI, probe, clock, cache, extractedData, pc, data, net, profile,
                   started, trail, origin, vin>>

\* normalizeCompetitorData(competitors) on the input
NormalizeAll ==
    /\ vout' = [op |-> "normalizeCompetitorData", res |-> normalizeCompetitorData(vin)]
    /\ UNCHANGED <<useAI, probe, clock, cache, extractedData, pc, data, net, profile,
                   started, trail, origin, vin>>

NextNormalize ==
    \/ \E i \in 1..MaxComps : ValidateEach(i)
    \/ NormalizeAll

SpecNormalize == InitNormalize /\ [][NextNormalize]_vars

-----------------------------------------------------------------------------
(* Properties *)

\* the catalog entry of a product name, or the empty list when it has none
CatalogEntryOrEmpty(name) ==
    IF name \in DOMAIN COMPETITOR_DATABASE THEN COMPETITOR_DATABASE[name] ELSE Arr(<<>>)

\* C1: when the generative competitor lookup was attempted and failed,
\* getCompetitors returns the static catalog entry of the product name, or
\* the empty list when the catalog has no entry for that name.
C1_FallbackIsCatalogEntryOrEmpty ==
    \A c \in Calls :
        trail[c].competitors = "fallback" =>
            data[c].crossBrandCompetitors = CatalogEntryOrEmpty(data[c].name)

\* the answers that carry no usable completion
FailureClasses == {"transport error", "non-2xx", "malformed body"}

\* C2: whatever the kind of failure of the generative narrative call
\* (transport error, non-2xx status, malformed response body), the narrative
\* of the profile is exactly the template narrative of the record.
C2_FailedNarrativeIsTemplate ==
    \A c \in Calls :
        (pc[c] = "done" /\ trail[c].nanswer \in FailureClasses) =>
            Ok(profile[c].narratives.factual) = FallbackNarrative(data[c])

\* C3: when the capability probe consulted at construction reported the
\* collaborator unavailable, no generative call is attempted afterwards.
C3_UnavailableMeansNoGenerativeCall ==
    probe # "ok" => \A c \in Calls : net[c].op = "none"

\* C4: a generateProfile call that waits for the collaborator eventually
\* returns (with a profile or an error), whether or not the collaborator
\* ever responds.
C4_ProfileEventuallyReturned ==
    \A c \in Sequential :
        (pc[c] \in {"competitors", "narrative"}) ~> (pc[c] \in {"done", "failed"})

\* the keys of the "compared to" sentences of a narrative
MentionedCompetitors(narrative) ==
    LET compared == SelectSeq(narrative.sentences, LAMBDA x : x.s = "compared to")
    IN [i \in 1..Len(compared) |-> compared[i].key]

\* the keys of the competitor_comparison member of the structured data
ComparedCompetitors(structuredData) ==
    IF "competitor_comparison" \in DOMAIN structuredData
    THEN [i \in 1..Len(structuredData.competitor_comparison) |->
             structuredData.competitor_comparison[i].key]
    ELSE <<>>

\* the elements of a sequence
Range(seq) == {seq[i] : i \in 1..Len(seq)}

\* brand and model of the competitors of a list, in order
ListedCompetitors(list) ==
    [i \in 1..Len(list.v) |-> list.v[i].v.brand.v \o " " \o list.v[i].v.model.v]

\* C5: the narrative stage of a call begins only when its competitor
\* resolution has ended, and in a returned profile the comparison map and the
\* template narrative both speak of the competitors resolved for the call:
\* the keys of the map are exactly the resolved competitors, and the template
\* narrative names the first of them (none when the list is empty).
C5_NarrativeAndComparisonUseResolvedList ==
    \A c \in Calls :
        /\ (trail[c].narrative # "none" \/ net[c].op = "narrative") =>
              trail[c].competitors \in {"static", "cached", "generated", "fallback"}
        /\ pc[c] = "done" =>
              LET listed == ListedCompetitors(profile[c].rawData.crossBrandCompetitors) IN
              /\ profile[c].rawData.crossBrandCompetitors = data[c].crossBrandCompetitors
              /\ Range(ComparedCompetitors(profile[c].structuredData)) = Range(listed)
              /\ trail[c].narrative = "template" =>
                    MentionedCompetitors(profile[c].narratives.factual) = Take(listed, 1)

\* a profile returned with the template narrative after the competitors came
\* from the collaborator
C5_Witness ==
    \E c \in Calls :
        /\ pc[c] = "done"
        /\ trail[c].competitors = "generated"
        /\ trail[c].narrative = "template"
        /\ Len(data[c].crossBrandCompetitors.v) > 0

\* C6: a value stored 24 hours ago or earlier is never returned from the
\* cache: reading such an entry removes it and reports absence, so the
\* operation performs the generative call again.
C6_ExpiredEntryNeverReturned ==
    \A c \in Calls :
        /\ trail[c].lookup = "expired" =>
              trail[c].competitors \in {"requested", "generated", "fallback"}
        /\ trail[c].nlookup = "expired" =>
              trail[c].narrative \in {"requested", "generated", "template"}
        /\ (trail[c].lookup = "expired" /\ pc[c] = "competitors") =>
              /\ cache[CompetitorsKey(data[c])] = NoEntry
              /\ net[c].op = "competitors"
        /\ (trail[c].nlookup = "expired" /\ pc[c] = "narrative") =>
              /\ cache[NarrativeKey(data[c])] = NoEntry
              /\ net[c].op = "narrative"

\* identifyCompetitors has read an entry 24 hours old and waits for the
\* collaborator
C6_Witness ==
    \E c \in Calls :
        /\ trail[c].lookup = "expired"
        /\ pc[c] = "competitors"
        /\ clock = 24

\* C7: a result cached for one product is never returned for a product with
\* a different (name, brand) pair.
C7_NoSharingAcrossProducts ==
    \A c \in Calls :
        /\ trail[c].competitors = "cached" => trail[c].from = Identity(data[c])
        /\ trail[c].narrative = "cached" => trail[c].nfrom = Identity(data[c])

\* C8: while the cache entry of the operation and product is fresh,
\* identifyCompetitors and generateProductNarrative return the cached value
\* and make no generative call.
C8_FreshEntryMeansNoCall ==
    \A c \in Calls :
        /\ trail[c].lookup = "fresh" => trail[c].competitors = "cached"
        /\ trail[c].nlookup = "fresh" => trail[c].narrative = "cached"

\* C9: the structured data of a profile has no aggregateRating key when the
\* record's rating is null, and has it, with ratingValue, bestRating and
\* reviewCount, when a rating was extracted.
C9_AggregateRatingOnlyWhenRated ==
    \A c \in Calls :
        pc[c] = "done" =>
            LET sd == profile[c].structuredData IN
            IF data[c].rating = Null
            THEN "aggregateRating" \notin DOMAIN sd
            ELSE /\ "aggregateRating" \in DOMAIN sd
                 /\ {"ratingValue", "bestRating", "reviewCount"}
                       \subseteq DOMAIN sd.aggregateRating

\* what the positioning of a response should be normalised to
ExpectedPositioning(positioning) ==
    IF positioning.t = "string" /\ ToLowerCase(positioning.cs) \in {premium, comparable, budget}
    THEN Text(ToLowerCase(positioning.cs))
    ELSE Text(comparable)

\* C10: validatePositioning returns the lowercased input when that is
\* premium, comparable or budget, and comparable for every other input,
\* non-strings included; it never raises.
C10_PositioningAlwaysValidated ==
    vout.op = "validatePositioning" =>
        vout.res = Ok(ExpectedPositioning(vout.arg))

\* the record's rating is an object whose score is null
UnscoredRating(d) == d.rating # Null /\ Get(d.rating, "score").val = Null

\* C22: when rating.score is null the review count is ignored downstream: the
\* structured data emits no review count, the prompt of the generative
\* narrative has no rating line, and the template narrative has no rating
\* sentence.
C22_UnscoredRatingIgnored ==
    \A c \in Calls :
        (pc[c] \in {"narrative", "done"} /\ UnscoredRating(data[c])) =>
            /\ profile[c].structuredData.aggregateRating = Null
            /\ net[c].op = "narrative" => net[c].ratingLine = <<>>
            /\ (pc[c] = "done" /\ trail[c].narrative = "template") =>
                  \A i \in 1..Len(profile[c].narratives.factual.sentences) :
                      profile[c].narratives.factual.sentences[i].s # "customer rating"

-----------------------------------------------------------------------------
(* truncateToWordCount, taken alone.  A text is the sequence of its         *)
(* characters; the function is called with a small min and max, which it    *)
(* treats as it treats 100 and 300.                                         *)

Whitespace == {" "}

RECURSIVE SplitFrom(_, _, _, _)
\* text.split(/\s+/) from the i-th character on: `done` are the pieces already
\* closed, `cur` the piece being read; a run of whitespace is one separator
SplitFrom(cs, i, done, cur) ==
    IF i > Len(cs) THEN Append(done, cur)
    ELSE IF cs[i] \in Whitespace
    THEN IF i > 1 /\ cs[i - 1] \in Whitespace
         THEN SplitFrom(cs, i + 1, done, cur)
         ELSE SplitFrom(cs, i + 1, Append(done, cur), <<>>)
    ELSE SplitFrom(cs, i + 1, done, Append(cur, cs[i]))

\* text.split(/\s+/)
SplitWhitespace(cs) == SplitFrom(cs, 1, <<>>, <<>>)

RECURSIVE JoinFrom(_, _)
\* words.join(' ') of the words from the i-th on, each after the first preceded
\* by one space
JoinFrom(words, i) ==
    IF i > Len(words) THEN <<>>
    ELSE (IF i > 1 THEN <<" ">> ELSE <<>>) \o words[i] \o JoinFrom(words, i + 1)

\* words.join(' ')
JoinSpace(words) == JoinFrom(words, 1)

\* text.lastIndexOf('.'): the 0-based index of the last period, -1 without one
LastIndexOfPeriod(cs) ==
    IF \E i \in 1..Len(cs) : cs[i] = "."
    THEN (CHOOSE i \in 1..Len(cs) :
             cs[i] = "." /\ \A j \in (i + 1)..Len(cs) : cs[j] # ".") - 1
    ELSE -1

\* truncateToWordCount(text, min, max)
truncateToWordCount(text, min, max) ==
    LET words == SplitWhitespace(text) IN
    IF Len(words) <= max THEN text
    ELSE LET truncated == JoinSpace(Take(words, max))
             lastPeriod == LastIndexOfPeriod(truncated)
         IN IF lastPeriod > min * 5
            THEN SubSeq(truncated, 1, lastPeriod + 1)
            ELSE truncated

\* the texts of at most n characters
Texts(n) == UNION {[1..k -> {"a", ".", " "}] : k \in 0..n}

InitTruncate ==
    /\ probe = "ok"
    /\ useAI = TRUE
    /\ clock = 0
    /\ cache = [k \in CacheKeys |-> NoEntry]
    /\ extractedData = "none"
    /\ pc = [c \in Calls |-> "idle"]
    /\ data = [c \in Calls |-> NoData]
    /\ net = [c \in Calls |-> NoRequest]
    /\ profile = [c \in Calls |-> NoProfile]
    /\ started = 0
    /\ trail = [c \in Calls |-> NoTrail]
    /\ origin = [k \in CacheKeys |-> Nobody]
    /\ vin \in Texts(MaxChars)
    /\ vout = NoResult

\* truncateToWordCount(text, min, max) on the input
Truncate ==
    /\ vout = NoResult
    /\ vout' = [op |-> "truncateToWordCount",
                res |-> truncateToWordCount(vin, TruncMin, TruncMax)]
    /\ UNCHANGED <<useAI, probe, clock, cache, extractedData, pc, data, net, profile,
                   started, trail, origin, vin>>

SpecTruncate == InitTruncate /\ [][Truncate]_vars

\* the words of a text: its maximal runs of characters that are no whitespace
WordsOf(cs) == SelectSeq(SplitWhitespace(cs), LAMBDA w : w # <<>>)

\* the max-word cut of a text has a period past the minimum-length point
CutHasLatePeriod(cs, min, max) ==
    LET cut == JoinSpace(Take(SplitWhitespace(cs), max))
    IN \E i \in 1..Len(cut) : cut[i] = "." /\ i - 1 > min * 5

\* C11: truncateToWordCount returns a text of exactly max words unchanged,
\* trailing whitespace included; of a text of more than max words it returns
\* at most max words, ending with a period whenever the max-word cut has a
\* period past the minimum-length point.
C11_TruncateKeepsMaxWordText ==
    vout.op = "truncateToWordCount" =>
        /\ Len(WordsOf(vin)) = TruncMax => vout.res = vin
        /\ Len(WordsOf(vin)) > TruncMax =>
              /\ Len(WordsOf(vout.res)) <= TruncMax
              /\ CutHasLatePeriod(vin, TruncMin, TruncMax) =>
                    vout.res[Len(vout.res)] = "."

-----------------------------------------------------------------------------
(* Documents.  A document is recorded by what its queries return: for each  *)
(* selector the code uses, the elements it matches in document order, each  *)
(* by its text content.                                                     *)

X10 == "0123456789"
X100 == X10 \o X10 \o X10 \o X10 \o X10 \o X10 \o X10 \o X10 \o X10 \o X10
\* a text of 499 characters and one of 500
X499 == X100 \o X100 \o X100 \o X100 \o "012345678901234567890123456789012345678901234567890123456789012345678901234567890123456789012345678"
X500 == X499 \o "9"

\* the text contents that carry surrounding whitespace, with what trim() leaves
Padded ==
    [raw \in {"  Brushless motor for longer runtime  ", "   ", " PowerMax ProDrill 2000X "} |->
        CASE raw = "  Brushless motor for longer runtime  " -> "Brushless motor for longer runtime"
          [] raw = "   " -> ""
          [] raw = " PowerMax ProDrill 2000X " -> "PowerMax ProDrill 2000X"]

\* text.trim()
Trim(text) == IF text \in DOMAIN Padded THEN Padded[text] ELSE text

\* the texts of the model that contain the copyright sign (written (c) here)
WithCopyrightSign == {"(c) 2024 PowerMax Tools. All rights reserved."}

\* the item texts of the feature lists enumerated exhaustively
FeatureItems ==
    { "Brushless motor for longer runtime", "  Brushless motor for longer runtime  ",
      "Two-speed gearbox with metal chuck", "Fast", "   " }

\* further item texts: at the length limits, and a copyright line
EdgeItems ==
    { X10, "01234567890", X499, X500, "(c) 2024 PowerMax Tools. All rights reserved." }

\* a list of n items that repeats k distinct texts in turn
RepeatingItems(n, k) == [i \in 1..n |-> "Distinct feature " \o ToString(((i - 1) % k) + 1)]

\* the feature selectors, in the order the code tries them
FeatureSelectors == 1..6

\* Array.prototype.filter
Filter(seq, Keep(_)) == SelectSeq(seq, Keep)

RECURSIVE Flatten(_)
\* the elements of the sequences of a sequence, in order
Flatten(seqs) == IF seqs = <<>> THEN <<>> ELSE Head(seqs) \o Flatten(Tail(seqs))

RECURSIVE DedupeFrom(_, _, _)
\* [...new Set(items)] from the i-th item on: insertion order, first occurrence kept
DedupeFrom(items, i, kept) ==
    IF i > Len(items) THEN kept
    ELSE DedupeFrom(items, i + 1,
                    IF \E j \in 1..Len(kept) : kept[j] = items[i] THEN kept
                    ELSE Append(kept, items[i]))

\* a variant that keeps every item
DedupeNone(items) == items

\* [...new Set(items)]
Dedupe(items) == DedupeFrom(items, 1, <<>>)

\* the texts the forEach over `items` pushes to features
FeatureTexts(items, fallback) ==
    LET texts == [i \in 1..Len(items) |-> Trim(items[i])] IN
    Filter(texts, LAMBDA text :
        /\ text # "" /\ Len(text) > 10 /\ Len(text) < 500
        /\ (fallback => text \notin WithCopyrightSign))

RECURSIVE FeaturesFromFirstMatch(_, _)
\* a variant of the loop that stops at the first selector matching any item
FeaturesFromFirstMatch(doc, i) ==
    IF i > 6 THEN <<>>
    ELSE IF Len(doc.featureLists[i]) > 0 THEN FeatureTexts(doc.featureLists[i], FALSE)
    ELSE FeaturesFromFirstMatch(doc, i + 1)

RECURSIVE FeaturesFromSelectors(_, _)
\* the loop over the selectors from the i-th on: it stops at the first
\* selector that yields a feature
FeaturesFromSelectors(doc, i) ==
    IF i > 6 THEN <<>>
    ELSE LET found == FeatureTexts(doc.featureLists[i], FALSE) IN
         IF Len(found) > 0 THEN found ELSE FeaturesFromSelectors(doc, i + 1)

\* extractFeatures(doc)
extractFeatures(doc) ==
    LET primary == FeaturesFromSelectors(doc, 1)
        features ==
            IF Len(primary) = 0
            THEN FeatureTexts(Flatten(doc.containers), TRUE)
            ELSE primary
    IN Take(Dedupe(features), 10)

(* Product name *)

\* no element matches / no attribute is set
NoElement == "<none>"

\* the texts of the model that isValidProductName rejects as promotional: in
\* lower case they contain all-new, introducing, shop now or buy now, or start
\* with "the new"
Promotional == {"Introducing the All-New ProDrill", "Shop Now", "THE NEW PowerMax line"}

\* the texts of the model that contain "home" in lower case
WithHome == {"Home", "PowerMax Home Tools"}

\* a text of 201 characters
X201 == X100 \o X100 \o "0"

\* isValidProductName(text)
isValidProductName(text) ==
    IF text = "" \/ Len(text) < 2 \/ Len(text) > 200 THEN FALSE
    ELSE IF text \in Promotional THEN FALSE
    ELSE TRUE

\* a path or link target is held character by character
PagePath == <<"/", "p", "/", "x">>

\* haystack.includes(needle)
Includes(haystack, needle) ==
    \E i \in 1..(Len(haystack) - Len(needle) + 1) :
        SubSeq(haystack, i, i + Len(needle) - 1) = needle

\* path.split('?')[0]
BeforeQuery(path) ==
    IF \E i \in 1..Len(path) : path[i] = "?"
    THEN SubSeq(path, 1, (CHOOSE i \in 1..Len(path) :
                             path[i] = "?" /\ \A j \in 1..(i - 1) : path[j] # "?") - 1)
    ELSE path

\* doc.location?.pathname || '': a document made by DOMParser has no location
UrlPath(doc) == IF doc.attached THEN doc.path ELSE <<>>

\* the link test of strategy 1 on one .product-name element
HrefMatches(element, urlPath) ==
    /\ element.href # <<>>   \* an enclosing link with a target
    /\ \/ element.href = urlPath
       \/ Includes(urlPath, element.href)
       \/ Includes(element.href, BeforeQuery(urlPath))

\* title.replace(/\s*\|\s*.+$/, '').replace(/\s*-\s*.+$/, '').trim() on the
\* titles of the model
Cleaned ==
    [title \in {"PowerMax ProDrill 2000X | PowerMax Tools", "Home - PowerMax Tools",
                "ProDrill - PowerMax Home Tools", "X2 | Shop"} |->
        CASE title = "PowerMax ProDrill 2000X | PowerMax Tools" -> "PowerMax ProDrill 2000X"
          [] title = "Home - PowerMax Tools" -> "Home"
          [] title = "ProDrill - PowerMax Home Tools" -> "ProDrill"
          [] title = "X2 | Shop" -> "X2"]

\* the cleaning of strategies 4 and 5
CleanTitle(title) == IF title \in DOMAIN Cleaned THEN Cleaned[title] ELSE Trim(title)

\* the first element of `elements` from the i-th on whose trimmed text is a
\* valid product name, or NoElement
RECURSIVE FirstValidName(_, _)
FirstValidName(texts, i) ==
    IF i > Len(texts) THEN NoElement
    ELSE IF isValidProductName(Trim(texts[i])) THEN Trim(texts[i])
    ELSE FirstValidName(texts, i + 1)

\* strategy 1: the first .product-name element whose link matches the URL path
\* and whose text is valid
NameByUrl(doc) ==
    LET urlPath == UrlPath(doc)
        matching == SelectSeq(doc.productNames, LAMBDA e : HrefMatches(e, urlPath))
    IN IF urlPath = <<>> THEN NoElement
       ELSE FirstValidName([i \in 1..Len(matching) |-> matching[i].text], 1)

\* strategy 2: the selectors in order, each by its first element
NameBySelector(doc) ==
    LET present == SelectSeq(doc.titleMarkers, LAMBDA text : text # NoElement)
    IN FirstValidName(present, 1)

\* strategy 3: the first .product-name element
NameByFirstProductName(doc) ==
    IF doc.productNames = <<>> THEN NoElement
    ELSE FirstValidName(<<doc.productNames[1].text>>, 1)

\* strategy 4: the og:title meta tag
NameByOgTitle(doc) ==
    LET ogTitle == IF doc.ogTitle = NoElement THEN "" ELSE Trim(doc.ogTitle)
        cleaned == CleanTitle(ogTitle)
    IN IF ogTitle # "" /\ Len(ogTitle) < 200 /\ Len(cleaned) > 2 /\ cleaned \notin WithHome
       THEN cleaned ELSE NoElement

\* strategy 5: the title element
NameByTitle(doc) ==
    LET title == IF doc.title = NoElement THEN "" ELSE doc.title
        cleaned == CleanTitle(title)
    IN IF title # "" /\ Len(cleaned) > 2 /\ Len(cleaned) < 200 /\ cleaned \notin WithHome
       THEN cleaned ELSE NoElement

\* a || b over names found
FirstFound(names) ==
    IF \E i \in 1..Len(names) : names[i] # NoElement
    THEN names[CHOOSE i \in 1..Len(names) :
                  names[i] # NoElement /\ \A j \in 1..(i - 1) : names[j] = NoElement]
    ELSE NoElement

\* extractProductName(doc)
extractProductName(doc) ==
    LET found == FirstFound(<<NameByUrl(doc), NameBySelector(doc),
                              NameByFirstProductName(doc), NameByOgTitle(doc),
                              NameByTitle(doc), FirstValidName(doc.h1s, 1),
                              FirstValidName(doc.h2s, 1)>>)
    IN IF found = NoElement THEN "Unknown Product" ELSE found

(* Specifications *)

\* label.toLowerCase().replace(/\s+/g, '_') on the labels of the model
CardKey(label) ==
    CASE label = "Warranty" -> "warranty"
      [] label = "Max Torque" -> "max_torque"
      [] label = "Max  Torque" -> "max_torque"
      [] label = "Battery [V]" -> "battery_[v]"
      [] label = "Max_ Torque" -> "max__torque"
      [] OTHER -> label

\* label.toLowerCase().replace(/[\s\[\]]/g, '_').replace(/_+/g, '_') on the
\* labels of the model
TableKey(label) ==
    CASE label = "Warranty" -> "warranty"
      [] label = "Max Torque" -> "max_torque"
      [] label = "Max  Torque" -> "max_torque"
      [] label = "Battery [V]" -> "battery_v_"
      [] label = "Max_ Torque" -> "max_torque"
      [] OTHER -> label

\* specs[key] = value on an insertion-ordered object: a key already present
\* keeps its place and takes the new value
PutSpec(specs, key, value) ==
    IF \E i \in 1..Len(specs) : specs[i].key = key
    THEN [i \in 1..Len(specs) |->
             IF specs[i].key = key THEN [key |-> key, value |-> value] ELSE specs[i]]
    ELSE Append(specs, [key |-> key, value |-> value])

\* a label or value element that is missing counts as the empty text
TextOrEmpty(text) == IF text = NoElement THEN "" ELSE Trim(text)

RECURSIVE SpecsFromCards(_, _, _)
\* the forEach over the .spec-card elements from the i-th on
SpecsFromCards(cards, i, specs) ==
    IF i > Len(cards) THEN specs
    ELSE LET label == TextOrEmpty(cards[i].label)
             value == TextOrEmpty(cards[i].value)
         IN SpecsFromCards(cards, i + 1,
                IF label # "" /\ value # "" THEN PutSpec(specs, CardKey(label), value)
                ELSE specs)

RECURSIVE SpecsFromRows(_, _, _)
\* the forEach over the table rows from the i-th on; a row is the sequence of
\* its cells
SpecsFromRows(rows, i, specs) ==
    IF i > Len(rows) THEN specs
    ELSE IF Len(rows[i]) >= 2
    THEN LET label == Trim(rows[i][1])
             value == Trim(rows[i][2])
         IN SpecsFromRows(rows, i + 1,
                IF label # "" /\ value # "" /\ label # value
                THEN PutSpec(specs, TableKey(label), value)
                ELSE specs)
    ELSE SpecsFromRows(rows, i + 1, specs)

RECURSIVE SpecsFromDefinitions(_, _, _)
\* the forEach over the dt elements from the i-th on; `value` is NoElement
\* when the next sibling is no dd
SpecsFromDefinitions(dts, i, specs) ==
    IF i > Len(dts) THEN specs
    ELSE IF dts[i].value # NoElement
    THEN LET label == Trim(dts[i].label)
             value == Trim(dts[i].value)
         IN SpecsFromDefinitions(dts, i + 1,
                IF label # "" /\ value # "" THEN PutSpec(specs, CardKey(label), value)
                ELSE specs)
    ELSE SpecsFromDefinitions(dts, i + 1, specs)

\* a variant in which the table rows are read last
extractSpecsTablesLast(doc) ==
    SpecsFromRows(doc.specRows, 1,
        SpecsFromDefinitions(doc.dts, 1, SpecsFromCards(doc.specCards, 1, <<>>)))

\* extractSpecs(doc): the specs object as the ordered sequence of its entries
extractSpecs(doc) ==
    SpecsFromDefinitions(doc.dts, 1,
        SpecsFromRows(doc.specRows, 1, SpecsFromCards(doc.specCards, 1, <<>>)))

(* Rating *)

\* text.match(/(\d+\.?\d*)\s*\/\s*(\d+)/) on the rating texts of the model:
\* the two groups, character by character, or <<>> without a match
RatingMatch(text) ==
    CASE text = "4.6 / 5 (1,204 reviews)" -> <<<<"4", ".", "6">>, <<"5">>>>
      [] text = "4.6/5" -> <<<<"4", ".", "6">>, <<"5">>>>
      [] text = "Rated 4 / 10 (1 review)" -> <<<<"4">>, <<"1", "0">>>>
      [] OTHER -> <<>>

\* text.match(/\(([0-9,]+)\s*reviews?\)/) on the rating texts of the model: the
\* group, or <<>> without a match
ReviewMatch(text) ==
    CASE text = "4.6 / 5 (1,204 reviews)" -> <<"1", ",", "2", "0", "4">>
      [] text = "Rated 4 / 10 (1 review)" -> <<"1">>
      [] text = "(12 reviews)" -> <<"1", "2">>
      [] OTHER -> <<>>

Digits == [c \in {"0", "1", "2", "3", "4", "5", "6", "7", "8", "9"} |->
             CASE c = "0" -> 0 [] c = "1" -> 1 [] c = "2" -> 2 [] c = "3" -> 3
               [] c = "4" -> 4 [] c = "5" -> 5 [] c = "6" -> 6 [] c = "7" -> 7
               [] c = "8" -> 8 [] c = "9" -> 9]

RECURSIVE DigitsValue(_, _, _)
\* the number the leading digits of cs from the i-th character on denote,
\* continuing the value acc
DigitsValue(cs, i, acc) ==
    IF i > Len(cs) \/ cs[i] \notin DOMAIN Digits THEN acc
    ELSE DigitsValue(cs, i + 1, acc * 10 + Digits[cs[i]])

\* parseInt(cs) of a text that starts with a digit
ParseInt(cs) == DigitsValue(cs, 1, 0)

\* the digits as matched, commas kept
WithCommas(cs) == cs

\* cs.replace(/,/g, '')
WithoutCommas(cs) == SelectSeq(cs, LAMBDA c : c # ",")

\* parseFloat(cs) of digits with at most one decimal, in tenths
ParseFloatTenths(cs) ==
    LET whole == ParseInt(cs)
        point == IF \E i \in 1..Len(cs) : cs[i] = "."
                 THEN CHOOSE i \in 1..Len(cs) : cs[i] = "." ELSE 0
    IN IF point > 0 /\ point < Len(cs)
       THEN whole * 10 + Digits[cs[point + 1]]
       ELSE whole * 10

\* extractRating(doc): the first of the three rating markers, then the matches
extractRating(doc) ==
    LET ratingElement == FirstFound(doc.ratingMarkers) IN
    IF ratingElement = NoElement THEN Null
    ELSE LET ratingMatch == RatingMatch(ratingElement)
             reviewMatch == ReviewMatch(ratingElement)
         IN Obj([score |-> IF ratingMatch # <<>> THEN Num(ParseFloatTenths(ratingMatch[1]))
                           ELSE Null,
                 maxScore |-> IF ratingMatch # <<>> THEN Num(ParseInt(ratingMatch[2]))
                              ELSE Num(5),
                 reviewCount |-> IF reviewMatch # <<>>
                                 THEN Num(ParseInt(WithoutCommas(reviewMatch)))
                                 ELSE Num(0)])

(* Image, tagline, lists, alternatives, brand, category *)

\* a || b || ... over strings, '' being falsy
FirstNonEmpty(texts) ==
    IF \E i \in 1..Len(texts) : texts[i] # ""
    THEN texts[CHOOSE i \in 1..Len(texts) :
                  texts[i] # "" /\ \A j \in 1..(i - 1) : texts[j] = ""]
    ELSE ""

\* an image marker: its src and content attributes ('' when not set) and its text
ImageElement(src, content, text) ==
    [present |-> TRUE, src |-> src, content |-> content, text |-> text]
NoImage == [present |-> FALSE, src |-> "", content |-> "", text |-> ""]

\* extractImage(doc): the first of the four image markers, then its src,
\* content or text
extractImage(doc) ==
    IF \A i \in 1..Len(doc.images) : doc.images[i] = NoImage THEN Null
    ELSE LET imgElement ==
                 doc.images[CHOOSE i \in 1..Len(doc.images) :
                               /\ doc.images[i] # NoImage
                               /\ \A j \in 1..(i - 1) : doc.images[j] = NoImage]
         IN Str(FirstNonEmpty(<<imgElement.src, imgElement.content, Trim(imgElement.text)>>))

\* extractMetaContent(doc, selector), extractText(doc, selector)
ExtractedText(element) == IF element = NoElement THEN "" ELSE Trim(element)

\* the tagline member of extractProductData
Tagline(doc) ==
    FirstNonEmpty(<<ExtractedText(doc.metaDescription), ExtractedText(doc.ogDescription),
                    ExtractedText(doc.productTagline), "">>)

\* extractListItems(doc, selector), extractCompatibility(doc)
extractListItems(items) == [i \in 1..Len(items) |-> Trim(items[i])]

\* the paragraphs of the model that match /^([^:]+):/, with the object
\* extractAlternatives makes of each
Alternative ==
    [text \in {"TitanForce MegaDrill Pro 3000: heavier duty at $249.99",
               "Milwaukee M18: a compact drill"} |->
        IF text = "TitanForce MegaDrill Pro 3000: heavier duty at $249.99"
        THEN [name |-> "TitanForce MegaDrill Pro 3000", price |-> Str("$249.99"),
              description |-> "heavier duty at $249.99"]
        ELSE [name |-> "Milwaukee M18", price |-> Null,
              description |-> "a compact drill"]]

NoSection == <<NoElement>>

\* extractAlternatives(doc): lastSection is NoSection without a
\* .section:last-child, else the sequence of its paragraphs
extractAlternatives(doc) ==
    IF doc.lastSection = NoSection THEN <<>>
    ELSE LET named == SelectSeq(doc.lastSection, LAMBDA text : text \in DOMAIN Alternative)
         IN [i \in 1..Len(named) |-> Alternative[named[i]]]

\* productName.match(/^(\w+)/) on the headings of the model: the group, or ""
FirstWord(text) ==
    CASE text = "PowerMax ProDrill 2000X" -> "PowerMax"
      [] text = "TitanForce MegaDrill Pro 3000" -> "TitanForce"
      [] text = "Introducing the All-New ProDrill" -> "Introducing"
      [] text = "X" -> "X"
      [] text = "Shop Now" -> "Shop"
      [] text = "(New) ProDrill 2000X" -> ""
      [] OTHER -> ""

\* title.split(/[-|]/) on the titles of the model: the last part trimmed, or ""
\* when the title has no separator
LastTitlePart(title) ==
    CASE title = "ProDrill - PowerMax Home Tools" -> "PowerMax Home Tools"
      [] title = "X2 | Shop" -> "Shop"
      [] OTHER -> ""

\* the first definition of extractBrand, which the later one replaces: the
\* brand meta tag, then the last part of the title (a parsed document has no
\* location, hence no host name), then 'Unknown Brand'
extractBrandFromMeta(doc) ==
    LET metaBrand == ExtractedText(doc.metaBrand)
        titlePart == IF doc.title = NoElement THEN "" ELSE LastTitlePart(doc.title)
    IN IF metaBrand # "" THEN metaBrand
       ELSE IF titlePart # "" THEN titlePart
       ELSE "Unknown Brand"

\* extractBrand(doc): the later of the two definitions of the class, which is
\* the one in effect
extractBrand(doc) ==
    LET productName == IF doc.h1s = <<>> THEN "" ELSE Trim(doc.h1s[1])
        brandMatch == FirstWord(productName)
    IN IF brandMatch # "" THEN brandMatch ELSE "Unknown"

RECURSIVE JoinWith(_, _, _)
\* parts.join(separator) from the i-th part on
JoinWith(parts, i, separator) ==
    IF i > Len(parts) THEN ""
    ELSE (IF i > 1 THEN separator ELSE "") \o parts[i] \o JoinWith(parts, i + 1, separator)

\* extractCategory(doc)
extractCategory(doc) ==
    LET categories == SelectSeq([i \in 1..Len(doc.breadcrumbs) |-> Trim(doc.breadcrumbs[i])],
                                LAMBDA t : t # "" /\ t \notin {"Home", "home", "HOME"})
        metaCat == ExtractedText(doc.metaCategory)
    IN IF Len(doc.breadcrumbs) > 1 /\ Len(categories) > 0 THEN JoinWith(categories, 1, " > ")
       ELSE IF metaCat # "" THEN metaCat
       ELSE "General Product"

\* extractProductData(doc)
extractProductData(doc) ==
    [name |-> extractProductName(doc),
     rating |-> extractRating(doc),
     image |-> extractImage(doc),
     tagline |-> Tagline(doc),
     specs |-> extractSpecs(doc),
     features |-> extractFeatures(doc),
     useCases |-> extractListItems(doc.useCases),
     pros |-> extractListItems(doc.pros),
     cons |-> extractListItems(doc.cons),
     compatibility |-> extractListItems(doc.compatibility),
     alternatives |-> extractAlternatives(doc),
     brand |-> extractBrand(doc),
     category |-> extractCategory(doc),
     crossBrandCompetitors |-> Arr(<<>>)]

-----------------------------------------------------------------------------
(* Extraction, taken alone: the inputs are documents, each with the         *)
(* elements of one concern.                                                 *)

\* a document in which no selector of the code matches anything
EmptyDoc ==
    [attached |-> FALSE, path |-> PagePath,
     productNames |-> <<>>, titleMarkers |-> [i \in 1..8 |-> NoElement],
     ogTitle |-> NoElement, title |-> NoElement, h1s |-> <<>>, h2s |-> <<>>,
     ratingMarkers |-> <<NoElement, NoElement, NoElement>>,
     images |-> <<NoImage, NoImage, NoImage, NoImage>>,
     metaDescription |-> NoElement, ogDescription |-> NoElement,
     productTagline |-> NoElement,
     specCards |-> <<>>, specRows |-> <<>>, dts |-> <<>>,
     featureLists |-> [i \in FeatureSelectors |-> <<>>], containers |-> <<>>,
     useCases |-> <<>>, pros |-> <<>>, cons |-> <<>>, compatibility |-> <<>>,
     lastSection |-> NoSection, metaBrand |-> NoElement,
     breadcrumbs |-> <<>>, metaCategory |-> NoElement]

\* the documents that add feature lists and containers to a base document
FeatureDocs(base) ==
    {[base EXCEPT !.featureLists[1] = a, !.featureLists[3] = b] :
        a, b \in SeqUpTo(FeatureItems, MaxItems)}
    \cup {[base EXCEPT !.featureLists[2] = a] :
            a \in SeqUpTo(FeatureItems \cup EdgeItems, MaxItems)}
    \cup {[base EXCEPT !.featureLists[6] = <<"Fast">>, !.containers = cs] :
            cs \in SeqUpTo(SeqUpTo({"Brushless motor for longer runtime", "Fast",
                                    "(c) 2024 PowerMax Tools. All rights reserved."},
                                   MaxItems), 2)}
    \cup {[base EXCEPT !.featureLists[1] = RepeatingItems(n, k)] :
            n \in 0..MaxRun, k \in 1..MaxRun}

\* .product-name elements: the text, and the target of the enclosing link
\* (<<>> without a link or a target)
NameElements ==
    {[text |-> "PowerMax ProDrill 2000X", href |-> <<>>],
     [text |-> "PowerMax ProDrill 2000X", href |-> PagePath],
     [text |-> "PowerMax ProDrill 2000X", href |-> <<"/", "p">>],
     [text |-> "TitanForce MegaDrill Pro 3000", href |-> <<>>],
     [text |-> "TitanForce MegaDrill Pro 3000", href |-> <<"/", "q">>],
     [text |-> "TitanForce MegaDrill Pro 3000", href |-> <<"/", "p", "/", "x", "/", "r">>],
     [text |-> "Introducing the All-New ProDrill", href |-> PagePath],
     [text |-> "Introducing the All-New ProDrill", href |-> <<"/", "q">>]}

\* the documents that add name markers
NameDocs(base) ==
    {[base EXCEPT !.attached = at, !.productNames = ns, !.titleMarkers = ms] :
        at \in BOOLEAN, ns \in SeqUpTo(NameElements, MaxItems),
        ms \in {base.titleMarkers,
                [base.titleMarkers EXCEPT ![1] = "TitanForce MegaDrill Pro 3000"],
                [base.titleMarkers EXCEPT ![1] = "Shop Now",
                                              ![3] = " PowerMax ProDrill 2000X "]}}
    \cup {[base EXCEPT !.ogTitle = og, !.title = ti, !.h1s = h1, !.h2s = h2] :
            og \in {NoElement, "PowerMax ProDrill 2000X | PowerMax Tools",
                    "Home - PowerMax Tools", X201},
            ti \in {NoElement, "ProDrill - PowerMax Home Tools", "X2 | Shop",
                    "PowerMax Home Tools", "Shop Now"},
            h1 \in SeqUpTo({"PowerMax ProDrill 2000X", "Shop Now", "X"}, MaxItems),
            h2 \in {<<>>, <<"TitanForce MegaDrill Pro 3000">>}}

SpecEntries(values) == [label : {"Warranty", "Max Torque"}, value : values]

\* the documents that add spec cards, table rows and definition lists
SpecDocs(base) ==
    {[base EXCEPT !.specCards = cards, !.specRows = rows, !.dts = dts] :
        cards \in SeqUpTo(SpecEntries({"2 Years"}), MaxItems),
        rows \in SeqUpTo({<<"Warranty", "3 Years">>, <<"Max  Torque", "650 in-lbs">>},
                         MaxItems),
        dts \in SeqUpTo(SpecEntries({"5 Years"}), MaxItems)}
    \cup {[base EXCEPT !.specCards = <<card>>, !.specRows = <<row>>, !.dts = <<dt>>] :
            card \in {[label |-> NoElement, value |-> "2 Years"],
                      [label |-> "Battery [V]", value |-> "20"],
                      [label |-> "Max_ Torque", value |-> "600 in-lbs"]},
            row \in {<<"Warranty">>, <<"3 Years", "3 Years">>, <<"Battery [V]", "18">>,
                     <<"Max_ Torque", "650 in-lbs">>, <<"Warranty", "3 Years", "parts">>},
            dt \in {[label |-> "Warranty", value |-> NoElement],
                    [label |-> "Battery [V]", value |-> "24"],
                    [label |-> "Warranty", value |-> "   "]}}

RatingTexts ==
    {"4.6 / 5 (1,204 reviews)", "4.6/5", "Rated 4 / 10 (1 review)", "No ratings yet",
     "(12 reviews)", ""}

\* the documents that add rating markers
RatingDocs(base) ==
    {[base EXCEPT !.ratingMarkers = ms] :
        ms \in [1..3 -> {NoElement} \cup RatingTexts]}

\* the documents that add the markers of the remaining members
OtherDocs(base) ==
    {[base EXCEPT !.images = im, !.metaDescription = md, !.productTagline = tg,
                      !.breadcrumbs = bc, !.lastSection = ls, !.metaCategory = mc,
                      !.compatibility = co, !.metaBrand = mb] :
        im \in {base.images,
                <<NoImage, ImageElement("/img/drill.png", "", ""), NoImage, NoImage>>,
                <<NoImage, NoImage, ImageElement("", "https://cdn/drill.png", ""), NoImage>>,
                <<ImageElement("", "", ""), NoImage, NoImage, NoImage>>},
        md \in {NoElement, "A compact 20V drill"},
        tg \in {NoElement, "  Brushless motor for longer runtime  "},
        bc \in {<<>>, <<"Home">>, <<"Home", "Tools", "Drills">>, <<"Home", "home">>},
        ls \in {NoSection, <<>>,
                <<"TitanForce MegaDrill Pro 3000: heavier duty at $249.99",
                  "No ratings yet", "Milwaukee M18: a compact drill">>},
        mc \in {NoElement, "Power Tools"},
        co \in {<<>>, <<"PowerMax 20V battery", "   ">>},
        mb \in {NoElement, "PowerMax"}}

\* the documents that vary the sources a brand could be read from
BrandDocs(base) ==
    {[base EXCEPT !.h1s = h1, !.metaBrand = mb, !.title = ti, !.attached = at] :
        h1 \in {<<>>, <<"PowerMax ProDrill 2000X">>, <<"   ">>, <<"(New) ProDrill 2000X">>,
                <<" PowerMax ProDrill 2000X ", "TitanForce MegaDrill Pro 3000">>},
        mb \in {NoElement, "PowerMax", "Acme"},
        ti \in {NoElement, "ProDrill - PowerMax Home Tools"},
        at \in BOOLEAN}

Docs(base) ==
    FeatureDocs(base) \cup NameDocs(base) \cup SpecDocs(base) \cup RatingDocs(base)
        \cup OtherDocs(base) \cup BrandDocs(base)

InitExtract ==
    /\ probe = "ok"
    /\ useAI = TRUE
    /\ clock = 0
    /\ cache = [k \in CacheKeys |-> NoEntry]
    /\ extractedData = "none"
    /\ pc = [c \in Calls |-> "idle"]
    /\ data = [c \in Calls |-> NoData]
    /\ net = [c \in Calls |-> NoRequest]
    /\ profile = [c \in Calls |-> NoProfile]
    /\ started = 0
    /\ trail = [c \in Calls |-> NoTrail]
    /\ origin = [k \in CacheKeys |-> Nobody]
    /\ vin \in Docs(EmptyDoc)
    /\ vout = NoResult

\* what an extractor leaves alone: everything but the observation of its result
ExtractorFrame ==
    UNCHANGED <<useAI, probe, clock, cache, pc, data, net, profile, started, trail,
                origin, vin>>

ExtractFeatures ==
    /\ vout = NoResult
    /\ vout' = [op |-> "extractFeatures", res |-> extractFeatures(vin)]
    /\ UNCHANGED extractedData
    /\ ExtractorFrame

ExtractProductName ==
    /\ vout = NoResult
    /\ vout' = [op |-> "extractProductName", res |-> extractProductName(vin)]
    /\ UNCHANGED extractedData
    /\ ExtractorFrame

ExtractSpecs ==
    /\ vout = NoResult
    /\ vout' = [op |-> "extractSpecs", res |-> extractSpecs(vin)]
    /\ UNCHANGED extractedData
    /\ ExtractorFrame

ExtractRating ==
    /\ vout = NoResult
    /\ vout' = [op |-> "extractRating", res |-> extractRating(vin)]
    /\ UNCHANGED extractedData
    /\ ExtractorFrame

\* extractProductData(doc) keeps the record in this.extractedData and returns it
ExtractProductData ==
    /\ vout = NoResult
    /\ extractedData' = extractProductData(vin)
    /\ vout' = [op |-> "extractProductData", res |-> extractProductData(vin)]
    /\ ExtractorFrame

NextExtract ==
    \/ ExtractFeatures
    \/ ExtractProductName
    \/ ExtractSpecs
    \/ ExtractRating
    \/ ExtractProductData

SpecExtract == InitExtract /\ [][NextExtract]_vars

-----------------------------------------------------------------------------
(* The block's generateProfile(url): fetching the markup, directly or        *)
(* through the proxies, and reporting a failure.  vin is the url, vout the   *)
(* position of the call with its locals.                                     *)

\* the proxies, in the order the loop tries them
proxies == <<"Local Python Proxy", "Cloudflare Worker">>

\* the texts a failed response may carry as its body
ErrorTexts ==
    {"Access denied", "403 Forbidden", "Not Found", "Too many redirects",
     "Blocked by bot protection", ""}

\* the messages of the errors fetch rejects with
RejectionMessages == {"Failed to fetch", "The operation timed out."}

\* the words the classification looks for
BlockWords == {"403", "Forbidden", "redirect", "bot protection"}

\* the words of the classification that a text of the model contains
Mentions(text) ==
    CASE text = "403 Forbidden" -> {"403", "Forbidden"}
      [] text = "Too many redirects" -> {"redirect"}
      [] text = "Blocked by bot protection" -> {"bot protection"}
      [] OTHER -> {}

\* what a fetch may settle with: a response, or a rejection
FetchAnswers ==
    [kind : {"response"}, ok : {TRUE}, status : {200}, body : {"<html>...</html>", ""}]
        \cup [kind : {"response"}, ok : {FALSE}, status : {403, 404, 500}, body : ErrorTexts]
        \cup [kind : {"rejected"}, message : RejectionMessages]

\* new Error(`${proxy.name} failed: ${errorText}`), and an error fetch rejected with
ProxyError(name, errorText) == [name |-> name, text |-> errorText]
Rejection(message) == [name |-> "", text |-> message]

\* error.message: the parts in order, separator included when there is a name
MessageParts(error) ==
    IF error.name = "" THEN <<error.text>> ELSE <<error.name, " failed: ", error.text>>

\* errorMsg.includes(word): no word of the classification straddles two parts
\* of a message of the model
MessageIncludes(parts, word) == \E i \in 1..Len(parts) : word \in Mentions(parts[i])

\* lastError?.message || ''
ErrorMsg(lastError) == IF lastError = Undefined THEN <<"">> ELSE MessageParts(lastError)

\* the test behind isBotProtection, over the four words
isBotProtection(errorMsg) == \E word \in BlockWords : MessageIncludes(errorMsg, word)

\* the locals of generateProfile(url) at a position of the call; `statuses`
\* records response.status of each attempt (0 for a rejected fetch), which the
\* code only logs
FetchState(at, next, html, lastError, statuses) ==
    [op |-> "generateProfile", at |-> at, next |-> next, html |-> html,
     lastError |-> lastError, statuses |-> statuses]

\* the observation of a call: `contacted` records, in order, through which
\* proxy a fetch was made ("" for the direct fetch) and what it settled with
Logged(state, contacted) ==
    [f \in DOMAIN state \cup {"contacted"} |->
        IF f = "contacted" THEN contacted ELSE state[f]]

InitFetch ==
    /\ probe = "ok"
    /\ useAI = TRUE
    /\ clock = 0
    /\ cache = [k \in CacheKeys |-> NoEntry]
    /\ extractedData = "none"
    /\ pc = [c \in Calls |-> "idle"]
    /\ data = [c \in Calls |-> NoData]
    /\ net = [c \in Calls |-> NoRequest]
    /\ profile = [c \in Calls |-> NoProfile]
    /\ started = 0
    /\ trail = [c \in Calls |-> NoTrail]
    /\ origin = [k \in CacheKeys |-> Nobody]
    /\ vin \in [isLocalFile : BOOLEAN]
    /\ vout = NoResult

FetchFrame ==
    UNCHANGED <<useAI, probe, clock, cache, extractedData, pc, data, net, profile,
                started, trail, origin, vin>>

\* a local url: the markup is fetched directly, whatever the status; a
\* rejection leaves the function as it is
FetchDirect ==
    /\ vout = NoResult
    /\ vin.isLocalFile
    /\ \E answer \in FetchAnswers :
          vout' = Logged(
                    IF answer.kind = "response"
                    THEN FetchState("parse", 0, Str(answer.body), Undefined,
                                    <<answer.status>>)
                    ELSE [op |-> "generateProfile", at |-> "thrown", statuses |-> <<0>>,
                          error |-> [kind |-> "fetch", details |-> <<answer.message>>]],
                    <<[proxy |-> "", answer |-> answer]>>)
    /\ FetchFrame

\* an external url: the loop over the proxies begins
EnterLoop ==
    /\ vout = NoResult
    /\ ~vin.isLocalFile
    /\ vout' = Logged(FetchState("loop", 1, Undefined, Undefined, <<>>), <<>>)
    /\ FetchFrame

\* one round of the loop: the fetch through the next proxy settles
TryProxy ==
    /\ vout.op = "generateProfile"
    /\ vout.at = "loop"
    /\ vout.next <= Len(proxies)
    /\ \E answer \in FetchAnswers :
          LET name == proxies[vout.next] IN
          vout' = Logged(
            IF answer.kind = "rejected"
            THEN FetchState("loop", vout.next + 1, vout.html, Rejection(answer.message),
                            Append(vout.statuses, 0))
            ELSE IF answer.ok
            THEN FetchState("check", vout.next, Str(answer.body), vout.lastError,
                            Append(vout.statuses, answer.status))   \* break
            ELSE FetchState("loop", vout.next + 1, vout.html,
                            ProxyError(name, answer.body),
                            Append(vout.statuses, answer.status)),
            Append(vout.contacted, [proxy |-> name, answer |-> answer]))
    /\ FetchFrame

\* the loop is over, by break or by exhaustion: without markup the failure is
\* classified and thrown
CheckHtml ==
    /\ vout.op = "generateProfile"
    /\ \/ vout.at = "check"
       \/ vout.at = "loop" /\ vout.next > Len(proxies)
    /\ vout' =
         IF Truthy(vout.html)
         THEN [vout EXCEPT !.at = "parse"]
         ELSE LET errorMsg == ErrorMsg(vout.lastError) IN
              Logged([op |-> "generateProfile", at |-> "thrown",
                      statuses |-> vout.statuses,
                      error |-> [kind |-> IF isBotProtection(errorMsg)
                                          THEN "bot protection" ELSE "failed to fetch",
                                 details |-> errorMsg]],
                     vout.contacted)
    /\ FetchFrame

\* the markup is parsed and handed to the generator
ParseHtml ==
    /\ vout.op = "generateProfile"
    /\ vout.at = "parse"
    /\ vout' = Logged([op |-> "generateProfile", at |-> "parsed",
                        statuses |-> vout.statuses, html |-> vout.html],
                       vout.contacted)
    /\ FetchFrame

NextFetch ==
    \/ FetchDirect
    \/ EnterLoop
    \/ TryProxy
    \/ CheckHtml
    \/ ParseHtml

SpecFetch == InitFetch /\ [][NextFetch]_vars

\* C18: when every attempt to fetch the markup through the proxies has failed
\* and the failure is thrown, a failure in which a proxy response had status
\* 403 is reported as the bot-protection case, never as the generic fetch
\* failure.
C18_ForbiddenReportedAsBlocked ==
    (/\ vout.op = "generateProfile"
     /\ vout.at = "thrown"
     /\ vout.error.kind # "fetch"
     /\ \A i \in 1..Len(vout.statuses) : vout.statuses[i] # 200
     /\ \E i \in 1..Len(vout.statuses) : vout.statuses[i] = 403)
        => vout.error.kind = "bot protection"

\* a fetch settled with a response that is ok
IsOk(answer) == answer.kind = "response" /\ answer.ok

\* C21: for an external url the local proxy is asked first and the Cloudflare
\* Worker only after the attempt through the local proxy has failed; after an
\* ok response no further proxy is asked, and the markup of that response is
\* the one parsed.
C21_ProxiesInOrderUntilOk ==
    (vout.op = "generateProfile" /\ ~vin.isLocalFile) =>
        LET contacted == vout.contacted IN
        /\ \A i \in 1..Len(contacted) :
              /\ contacted[i].proxy = proxies[i]
              /\ IsOk(contacted[i].answer) => i = Len(contacted)
        /\ (contacted # <<>> /\ IsOk(contacted[Len(contacted)].answer)) =>
              /\ vout.at \in {"check", "parse", "parsed"}
              /\ vout.html = Str(contacted[Len(contacted)].answer.body)

-----------------------------------------------------------------------------
(* generateCompetitorComparison, taken alone: the input is a product record *)
(* with the competitors resolved for it.                                     *)

\* n compatible products
CompatibleProducts(n) == [i \in 1..n |-> "Compatible product " \o ToString(i)]

\* six features, the second of which is worded as a premium one
SixFeatures ==
    <<"Brushless motor for longer runtime", "Advanced torque control for precision",
      "Two-speed gearbox", "LED work light", "Belt clip included", "Keyless chuck">>

\* the competitors a response may describe
ComparedResponses ==
    {ResponseCompetitor(Text(p)) : p \in {premium, comparable, budget}}
        \cup SparseCompetitors

\* the lists competitor resolution may end with: a normalised response, or
\* what the static catalog holds under a product name
ResolvedLists ==
    {normalizeCompetitorData(Arr(cs)).val : cs \in SeqUpTo(ComparedResponses, MaxComps)}
        \cup {StaticCompetitors([name |-> n]) :
                 n \in {"PowerMax ProDrill 2000X", "TitanForce MegaDrill Pro 3000",
                        "constructor", "Unlisted"}}

\* the records the comparison is generated of, given the lists resolved
ComparedRecords(lists) ==
    {[ProductRecord("PowerMax ProDrill 2000X", "PowerMax", Null, CompatibleProducts(n))
         EXCEPT !.specs = sp, !.features = fs, !.crossBrandCompetitors = list] :
        n \in 0..MaxCompatible,
        sp \in {<<>>, <<[key |-> "warranty", value |-> "5 Years"]>>},
        fs \in {<<>>, Take(SixFeatures, 2), Take(SixFeatures, 5), SixFeatures},
        list \in lists}

InitComparison ==
    /\ probe = "ok"
    /\ useAI = TRUE
    /\ clock = 0
    /\ cache = [k \in CacheKeys |-> NoEntry]
    /\ extractedData = "none"
    /\ pc = [c \in Calls |-> "idle"]
    /\ data = [c \in Calls |-> NoData]
    /\ net = [c \in Calls |-> NoRequest]
    /\ profile = [c \in Calls |-> NoProfile]
    /\ started = 0
    /\ trail = [c \in Calls |-> NoTrail]
    /\ origin = [k \in CacheKeys |-> Nobody]
    /\ vin \in ComparedRecords(ResolvedLists)
    /\ vout = NoResult

\* the value of the local comparisonText in each round of the forEach
ComparisonTexts(d) ==
    IF d.crossBrandCompetitors.t = "array"
    THEN [i \in 1..Len(d.crossBrandCompetitors.v) |->
             ComparisonText(d, d.crossBrandCompetitors.v[i])]
    ELSE <<>>

\* generateCompetitorComparison(data) on the input; `texts` records the
\* comparisonText of each round
Compare ==
    /\ vout = NoResult
    /\ vout' = [op |-> "generateCompetitorComparison",
                res |-> generateCompetitorComparison(vin),
                texts |-> ComparisonTexts(vin)]
    /\ UNCHANGED <<useAI, probe, clock, cache, extractedData, pc, data, net, profile,
                   started, trail, origin, vin>>

NextComparison == Compare

SpecComparison == InitComparison /\ [][NextComparison]_vars

\* a text has a sentence of the template c
HasSentence(text, c) == \E i \in 1..Len(text) : text[i].c = c

\* the text the comparison map holds under a key
ComparisonOf(comparison, key) ==
    comparison[CHOOSE i \in 1..Len(comparison) : comparison[i].key = key].text

\* C16: the comparison text written of a premium competitor has the
\* ecosystem-compatibility sentence exactly when the record lists more than 5
\* compatible products, and the text written of a comparable competitor has
\* the broader-ecosystem sentence exactly when it lists more than 10; the map
\* holds that text under the competitor's key unless a later competitor has
\* the same key.
C16_EcosystemSentencesByCompatibility ==
    (vout.op = "generateCompetitorComparison" /\ ~vout.res.threw) =>
        LET competitors == vin.crossBrandCompetitors.v
            n == Len(vin.compatibility)
        IN \A i \in 1..Len(vout.texts) :
              LET positioning == competitors[i].v.positioning
                  text == vout.texts[i]
              IN /\ positioning = Text(premium) =>
                       (HasSentence(text, "excellent ecosystem compatibility") <=> n > 5)
                 /\ positioning = Text(comparable) =>
                       (HasSentence(text, "broader ecosystem") <=> n > 10)
                 /\ positioning \notin {Text(premium), Text(comparable)} =>
                       /\ ~HasSentence(text, "excellent ecosystem compatibility")
                       /\ ~HasSentence(text, "broader ecosystem")
                 /\ (\A j \in (i + 1)..Len(competitors) :
                        CompetitorKey(competitors[j]) # CompetitorKey(competitors[i]))
                       => ComparisonOf(vout.res.val, CompetitorKey(competitors[i])) = text

\* with 8 compatible products, the text of a premium competitor has the
\* ecosystem sentence and that of a comparable competitor lacks the
\* broader-ecosystem sentence
C16_Witness ==
    /\ vout.op = "generateCompetitorComparison"
    /\ ~vout.res.threw
    /\ Len(vin.compatibility) = 8
    /\ \E i, j \in 1..Len(vout.texts) :
          /\ vin.crossBrandCompetitors.v[i].v.positioning = Text(premium)
          /\ HasSentence(vout.texts[i], "excellent ecosystem compatibility")
          /\ vin.crossBrandCompetitors.v[j].v.positioning = Text(comparable)
          /\ ~HasSentence(vout.texts[j], "broader ecosystem")

\* the last sentence of a comparison text
Close(text) == text[Len(text)]

\* the close of the text of a comparable competitor with `listed` features
ComparableCloses(listed(_)) ==
    (vout.op = "generateCompetitorComparison" /\ ~vout.res.threw) =>
        \A i \in 1..Len(vout.texts) :
            vin.crossBrandCompetitors.v[i].v.positioning = Text(comparable) =>
                IF Len(vin.features) > 5
                THEN /\ Close(vout.texts[i]).c = "features include"
                     /\ listed(Close(vout.texts[i]).features)
                ELSE Close(vout.texts[i]) =
                         [c |-> "reliable performance for intended use cases"]

\* C23 as stated: the text of a comparable competitor closes with a features
\* sentence listing at most 2 of the record's features when the record has
\* more than 5 features, and with the generic reliability close otherwise.
C23_ComparableClosesWithTwoFeatures ==
    ComparableCloses(LAMBDA features :
        /\ Len(features) <= 2
        /\ \A k \in 1..Len(features) : features[k] = vin.features[k])

\* C23, amended: the text of a comparable competitor closes with a features
\* sentence listing the first 3 features of the record when the record has
\* more than 5 features, and with the generic reliability close otherwise.
C23_ComparableClosesWithThreeFeatures ==
    ComparableCloses(LAMBDA features :
        features = <<vin.features[1], vin.features[2], vin.features[3]>>)

\* a comparable competitor compared with a record of six features: the text
\* closes with the features sentence
C23_Witness ==
    /\ vout.op = "generateCompetitorComparison"
    /\ ~vout.res.threw
    /\ \E i \in 1..Len(vout.texts) :
          /\ vin.crossBrandCompetitors.v[i].v.positioning = Text(comparable)
          /\ Len(vin.features) = 6
          /\ Close(vout.texts[i]).c = "features include"

\* C20: for every resolved competitor list the comparison map has exactly
\* one entry per competitor, keyed by brand and model, in the order of the
\* list.
C20_OneEntryPerCompetitorInOrder ==
    vout.op = "generateCompetitorComparison" =>
        /\ ~vout.res.threw
        /\ vin.crossBrandCompetitors.t = "array" =>
              [i \in 1..Len(vout.res.val) |-> vout.res.val[i].key]
                  = ListedCompetitors(vin.crossBrandCompetitors)

\* the position of the first occurrence of x in seq (0 when it does not occur)
FirstIndex(seq, x) ==
    IF \E i \in 1..Len(seq) : seq[i] = x
    THEN CHOOSE i \in 1..Len(seq) : seq[i] = x /\ \A j \in 1..(i - 1) : seq[j] # x
    ELSE 0

\* the item lists of a document, each with its texts trimmed
TrimmedLists(doc) ==
    {extractListItems(doc.featureLists[i]) : i \in FeatureSelectors}
        \cup {extractListItems(Flatten(doc.containers))}

\* C12: extractFeatures returns at most 10 entries, no string twice, and the
\* entries stand in the order of their first occurrence in the list of the
\* document they were taken from.
C12_FeaturesCappedDistinctOrdered ==
    vout.op = "extractFeatures" =>
        /\ Len(vout.res) <= 10
        /\ \A i, j \in 1..Len(vout.res) : i # j => vout.res[i] # vout.res[j]
        /\ \E list \in TrimmedLists(vin) :
              /\ \A i \in 1..Len(vout.res) : FirstIndex(list, vout.res[i]) > 0
              /\ \A i, j \in 1..Len(vout.res) :
                    i < j => FirstIndex(list, vout.res[i]) < FirstIndex(list, vout.res[j])

\* a list of more than 10 distinct features, some of them repeated, has been
\* cut to 10
C12_Witness ==
    /\ vout.op = "extractFeatures"
    /\ Len(vout.res) = 10
    /\ Cardinality(Range(vin.featureLists[1])) > 10
    /\ Len(vin.featureLists[1]) > Cardinality(Range(vin.featureLists[1]))

\* the link target of a .product-name element matches the path of the page:
\* equality, or containment in either direction
MatchesPagePath(element, path) ==
    /\ element.href # <<>>
    /\ (element.href = path \/ Includes(path, element.href) \/ Includes(element.href, path))

\* C13: when the page has a .product-name element whose link target matches
\* the path of the page and whose text is a valid name, the name returned is
\* the text of the first such element, whatever the product-title selectors
\* match.
C13_UrlMatchingNamePreferred ==
    vout.op = "extractProductName" =>
        LET candidates ==
                SelectSeq(vin.productNames, LAMBDA e :
                    MatchesPagePath(e, vin.path) /\ isValidProductName(Trim(e.text)))
        IN candidates # <<>> => vout.res = Trim(candidates[1].text)

\* the members of the record extractProductData returns
RecordMembers ==
    {"name", "rating", "image", "tagline", "specs", "features", "useCases", "pros",
     "cons", "compatibility", "alternatives", "brand", "category", "crossBrandCompetitors"}

\* the document has none of the markers the extractors look for
LacksEveryMarker(doc) == [doc EXCEPT !.attached = FALSE, !.path = PagePath] = EmptyDoc

\* C14: extractProductData returns a complete record for every document, and
\* for a document without any marker every member has its terminal default.
C14_ExtractionCompleteWithDefaults ==
    vout.op = "extractProductData" =>
        /\ DOMAIN vout.res = RecordMembers
        /\ LacksEveryMarker(vin) =>
              /\ vout.res.name = "Unknown Product"
              /\ vout.res.brand = "Unknown"
              /\ vout.res.category = "General Product"
              /\ vout.res.tagline = ""
              /\ vout.res.rating = Null
              /\ vout.res.image = Null
              /\ vout.res.specs = <<>>
              /\ \A m \in {"features", "useCases", "pros", "cons", "compatibility",
                           "alternatives"} : vout.res[m] = <<>>
              /\ vout.res.crossBrandCompetitors = Arr(<<>>)

\* the record of a document without any marker
C14_Witness ==
    /\ vout.op = "extractProductData"
    /\ LacksEveryMarker(vin)

\* the values a source of the document gives for a key, in document order
CardValues(doc, key) ==
    LET hits == SelectSeq(doc.specCards, LAMBDA c :
                    TextOrEmpty(c.label) # "" /\ TextOrEmpty(c.value) # ""
                    /\ CardKey(TextOrEmpty(c.label)) = key)
    IN [i \in 1..Len(hits) |-> Trim(hits[i].value)]
RowValues(doc, key) ==
    LET hits == SelectSeq(doc.specRows, LAMBDA r :
                    /\ Len(r) >= 2
                    /\ Trim(r[1]) # "" /\ Trim(r[2]) # "" /\ Trim(r[1]) # Trim(r[2])
                    /\ TableKey(Trim(r[1])) = key)
    IN [i \in 1..Len(hits) |-> Trim(hits[i][2])]
DefinitionValues(doc, key) ==
    LET hits == SelectSeq(doc.dts, LAMBDA d :
                    /\ d.value # NoElement
                    /\ Trim(d.label) # "" /\ Trim(d.value) # ""
                    /\ CardKey(Trim(d.label)) = key)
    IN [i \in 1..Len(hits) |-> Trim(hits[i].value)]

\* the value the specs object holds under a key ("" when the key is absent)
SpecValue(specs, key) ==
    IF \E i \in 1..Len(specs) : specs[i].key = key
    THEN specs[CHOOSE i \in 1..Len(specs) : specs[i].key = key].value
    ELSE ""

\* the last element of a sequence that is not empty
Last(seq) == seq[Len(seq)]

SpecKeys == {"warranty", "max_torque", "max__torque", "battery_[v]", "battery_v_"}

\* C15: when several sources give the same key, the value retained is that of
\* the definition list if it gives one, else that of the table if it gives
\* one, else that of the spec card.
C15_DefinitionsOverTablesOverCards ==
    vout.op = "extractSpecs" =>
        \A key \in SpecKeys :
            LET cards == CardValues(vin, key)
                rows == RowValues(vin, key)
                definitions == DefinitionValues(vin, key)
            IN /\ definitions # <<>> => SpecValue(vout.res, key) = Last(definitions)
               /\ (definitions = <<>> /\ rows # <<>>) => SpecValue(vout.res, key) = Last(rows)
               /\ (definitions = <<>> /\ rows = <<>> /\ cards # <<>>) =>
                     SpecValue(vout.res, key) = Last(cards)

\* a card, a table row and a definition entry give the key warranty three
\* different values
C15_Witness ==
    /\ vout.op = "extractSpecs"
    /\ CardValues(vin, "warranty") # <<>>
    /\ RowValues(vin, "warranty") # <<>>
    /\ DefinitionValues(vin, "warranty") # <<>>
    /\ Last(CardValues(vin, "warranty")) # Last(RowValues(vin, "warranty"))
    /\ Last(RowValues(vin, "warranty")) # Last(DefinitionValues(vin, "warranty"))

\* what the rating texts of the model say: the score in tenths (-1 without
\* an 'X / Y' pattern), the maximum, and the number of reviews
StatedRating ==
    [text \in RatingTexts |->
        CASE text = "4.6 / 5 (1,204 reviews)" -> <<46, 5, 1204>>
          [] text = "4.6/5" -> <<46, 5, 0>>
          [] text = "Rated 4 / 10 (1 review)" -> <<40, 10, 1>>
          [] text = "No ratings yet" -> <<-1, 5, 0>>
          [] text = "(12 reviews)" -> <<-1, 5, 12>>
          [] text = "" -> <<-1, 5, 0>>]

\* C17: the rating is null exactly when the document has no rating marker;
\* with a marker it is an object with the score and maximum of the 'X / Y'
\* pattern of the marker's text (score null and maximum 5 without one) and the
\* review count of the '(N reviews)' pattern, commas removed (0 without one).
C17_RatingFromMarkerText ==
    vout.op = "extractRating" =>
        LET markers == SelectSeq(vin.ratingMarkers, LAMBDA m : m # NoElement) IN
        /\ vout.res = Null <=> markers = <<>>
        /\ markers # <<>> =>
              LET stated == StatedRating[markers[1]] IN
              vout.res = Obj([score |-> IF stated[1] < 0 THEN Null ELSE Num(stated[1]),
                              maxScore |-> Num(stated[2]),
                              reviewCount |-> Num(stated[3])])

\* the rating of a marker that reads '4.6 / 5 (1,204 reviews)'
C17_Witness ==
    /\ vout.op = "extractRating"
    /\ vin.ratingMarkers[1] = "4.6 / 5 (1,204 reviews)"
    /\ vout.res = Rating(Num(46), 5, 1204)

\* a member the response left out of a competitor
Missing(comp, member) == Get(comp, member).val = Undefined

\* C19: every competitor normalizeCompetitorData returns has price 0 and
\* torque 0 whatever the response carried, the brand 'Unknown' when the
\* response gave none, and the empty string as model and key feature when the
\* response gave none; the competitors of the static catalog carry their own
\* price and torque.
C19_NormalizedNumbersAreZero ==
    /\ (vout.op = "normalizeCompetitorData" /\ ~vout.res.threw) =>
          /\ Len(vout.res.val.v) = Len(vin.v)
          /\ \A i \in 1..Len(vin.v) :
                LET comp == vin.v[i]
                    out == vout.res.val.v[i].v
                IN /\ out.price = Num(0)
                   /\ out.torque = Num(0)
                   /\ Missing(comp, "brand") => out.brand = Str("Unknown")
                   /\ Missing(comp, "model") => out.model = Str("")
                   /\ Missing(comp, "keyFeature") => out.keyFeature = Str("")
    /\ \A name \in DOMAIN COMPETITOR_DATABASE :
          LET entry == StaticCompetitors([name |-> name]).v IN
          /\ entry # <<>>
          /\ \A i \in 1..Len(entry) : entry[i].v.price.v > 0 /\ entry[i].v.torque.v > 0

\* a response with a priced competitor and one without brand, model and key
\* feature has been normalised
C19_Witness ==
    /\ vout.op = "normalizeCompetitorData"
    /\ ~vout.res.threw
    /\ \E i, j \in 1..Len(vin.v) :
          /\ Get(vin.v[i], "price").val = Num(29999)
          /\ Get(vin.v[i], "torque").val = Num(1200)
          /\ Missing(vin.v[j], "brand") /\ Missing(vin.v[j], "model")
          /\ Missing(vin.v[j], "keyFeature")
          /\ vout.res.val.v[j].v.brand = Str("Unknown")

\* the trimmed text of the first h1 of the document ("" without h1)
FirstHeading(doc) == IF doc.h1s = <<>> THEN "" ELSE Trim(doc.h1s[1])

\* the document without brand meta tag and title, detached from any location
WithoutBrandHints(doc) ==
    [doc EXCEPT !.metaBrand = NoElement, !.title = NoElement, !.attached = FALSE]

\* C24: the brand of the extracted record is the leading word of the trimmed
\* text of the first h1, or 'Unknown' when there is no h1 or its text does not
\* start with a word; brand meta tags, host name and title never influence
\* it, and 'Unknown Brand' is never returned.
C24_BrandFromFirstHeading ==
    vout.op = "extractProductData" =>
        /\ vout.res.brand # "Unknown Brand"
        /\ vout.res.brand = extractProductData(WithoutBrandHints(vin)).brand
        /\ FirstHeading(vin) \in {"", "(New) ProDrill 2000X"} => vout.res.brand = "Unknown"
        /\ FirstHeading(vin) = "PowerMax ProDrill 2000X" => vout.res.brand = "PowerMax"
        /\ FirstHeading(vin) = "Shop Now" => vout.res.brand = "Shop"
        /\ FirstHeading(vin) = "X" => vout.res.brand = "X"

\* a document with a brand meta tag naming Acme, a title with a separator and
\* a padded first h1 naming the PowerMax drill: the brand is PowerMax
C24_Witness ==
    /\ vout.op = "extractProductData"
    /\ vin.metaBrand = "Acme"
    /\ vin.title = "ProDrill - PowerMax Home Tools"
    /\ vin.h1s = <<" PowerMax ProDrill 2000X ", "TitanForce MegaDrill Pro 3000">>
    /\ vout.res.brand = "PowerMax"

\* the first of a non-empty set of selectors
FirstSelector(selectors) == CHOOSE i \in selectors : \A j \in selectors : i <= j

\* the texts of a list that pass the length test, trimmed
Accepted(items) ==
    {text \in Range(extractListItems(items)) : Len(text) > 10 /\ Len(text) < 500}

\* the features returned are the texts of `source`, all of them when they are
\* at most 10
TakenFrom(features, source) ==
    /\ Range(features) \subseteq source
    /\ Cardinality(source) <= 10 => Range(features) = source

\* C25 as stated: the features come from the first selector that matches any
\* list item, and the fallback containers are used only when no selector
\* matched anything.
C25_FirstMatchingSelectorOnly ==
    vout.op = "extractFeatures" =>
        LET matching == {i \in FeatureSelectors : vin.featureLists[i] # <<>>} IN
        IF matching # {}
        THEN Range(vout.res) \subseteq Accepted(vin.featureLists[FirstSelector(matching)])
        ELSE Range(vout.res) \subseteq Accepted(Flatten(vin.containers))

\* C25, amended: the features come from the first selector, in the fixed
\* priority order, whose list items yield at least one accepted feature text;
\* once a selector has yielded a feature no later selector is consulted and
\* items of different selectors are never merged, and the fallback containers
\* are used only when no selector yielded any feature.
C25_FirstYieldingSelectorOnly ==
    vout.op = "extractFeatures" =>
        LET yielding == {i \in FeatureSelectors : Accepted(vin.featureLists[i]) # {}} IN
        IF yielding # {}
        THEN TakenFrom(vout.res, Accepted(vin.featureLists[FirstSelector(yielding)]))
        ELSE TakenFrom(vout.res, Accepted(Flatten(vin.containers)) \ WithCopyrightSign)

\* the first selector matches an item that is too short and the third one
\* yields a feature, which is the one returned
C25_Witness ==
    /\ vout.op = "extractFeatures"
    /\ vin.featureLists[1] = <<"Fast">>
    /\ Accepted(vin.featureLists[3]) # {}
    /\ Range(vout.res) = Accepted(vin.featureLists[3])

\* C30: every name extractProductName returns, by whichever strategy, is
\* 'Unknown Product' or passes the validation: a length between 2 and 200 and
\* no promotional phrasing.
C30_ReturnedNamesAreValid ==
    vout.op = "extractProductName" =>
        \/ vout.res = "Unknown Product"
        \/ /\ Len(vout.res) >= 2
           /\ Len(vout.res) <= 200
           /\ vout.res \notin Promotional

\* the generative competitor call of c ends in this step, and how
CompetitorsEnd(c, how) == pc[c] = "competitors" /\ trail'[c].competitors = how

\* the generative narrative call of c ends in this step, and how
NarrativeEnds(c, how) == pc[c] = "narrative" /\ trail'[c].narrative = how

\* C26: a failed generative call leaves the cache unwritten.  A step in which
\* a call falls back writes no entry (the only change it may make is the
\* removal of an expired one), and an entry is written only in a step in which
\* a generative call succeeded, under the key of that call; for competitors
\* the value written is the normalised list the call resolved.
C26_FallbackNeverCached ==
    [][/\ \A c \in Calls :
            (CompetitorsEnd(c, "fallback") \/ NarrativeEnds(c, "template")) =>
                \A k \in CacheKeys : cache'[k] \in {cache[k], NoEntry}
       /\ \A k \in CacheKeys :
            (cache'[k].stored /\ cache'[k] # cache[k]) =>
                \E c \in Calls :
                    \/ /\ CompetitorsEnd(c, "generated")
                       /\ k = CompetitorsKey(data[c])
                       /\ cache'[k].json.data = data'[c].crossBrandCompetitors
                    \/ /\ NarrativeEnds(c, "generated")
                       /\ k = NarrativeKey(data[c])]_vars

\* a call whose competitor lookup fell back to the static catalog, with no
\* entry under its key
C26_Witness ==
    \E c \in Calls :
        /\ trail[c].competitors = "fallback"
        /\ pc[c] \in {"narrative", "done"}
        /\ ~cache[CompetitorsKey(data[c])].stored

\* both parts of the profile of c came from the fallback paths
BothFromFallback(c) ==
    /\ trail[c].competitors \in {"static", "fallback"}
    /\ trail[c].narrative = "template"

\* C29: metadata.aiPowered of a profile is a boolean, and it is false whenever
\* the generative collaborator is unavailable or disabled for the request,
\* that is whenever both the competitors and the narrative came from the
\* fallback paths.
C29_AiPoweredIsHonestBoolean ==
    \A c \in Calls :
        pc[c] = "done" =>
            /\ profile[c].metadata.aiPowered.t = "boolean"
            /\ (probe # "ok" \/ ~useAI \/ BothFromFallback(c)) =>
                  profile[c].metadata.aiPowered = Bool(FALSE)

-----------------------------------------------------------------------------
(* Two generateProfile calls in flight on one generator.  Both write        *)
(* this.extractedData; each works on its local `data`.                      *)

\* what the worker answers in this specification
InterleavedCompetitorAnswers ==
    {NetworkError,
     HttpResponse(TRUE, Completion(
        JsonText("{competitors:[DeWalt DCD999 Premium]}",
                 Obj([competitors |->
                        Arr(<<ResponseCompetitor(Text(<<"P","r","e","m","i","u","m">>))>>)]))))}
InterleavedNarrativeAnswers ==
    {NetworkError, HttpResponse(TRUE, Completion(Str("Looking for a drill? ...")))}

NextInterleaved ==
    \/ \E c \in Calls, p \in Products : Generate(c, p, TRUE)
    \/ \E c \in Calls, resp \in InterleavedCompetitorAnswers : CompetitorsSettle(c, resp, TRUE)
    \/ \E c \in Calls, resp \in InterleavedNarrativeAnswers : NarrativeSettle(c, resp)

SpecInterleaved == Init /\ [][NextInterleaved]_vars

\* C28: two interleaved generateProfile calls on one generator do not
\* interfere.  The raw record of a returned profile is the record of the
\* call's own document with the competitors the call resolved (the static
\* catalog entry of its own product name when it did not use a generative or
\* cached list), and its structured data and template narrative are those of
\* that record, whichever call wrote this.extractedData last.
C28_InterleavedCallsDoNotInterfere ==
    \A c \in Calls :
        pc[c] = "done" =>
            LET own == trail[c].input
                raw == profile[c].rawData
            IN /\ raw = [own EXCEPT !.crossBrandCompetitors = raw.crossBrandCompetitors]
               /\ trail[c].competitors \in {"static", "fallback"} =>
                     raw.crossBrandCompetitors = StaticCompetitors(own)
               /\ trail[c].competitors = "generated" =>
                     \E resp \in InterleavedCompetitorAnswers :
                         /\ ~identifyCompetitors(resp).threw
                         /\ raw.crossBrandCompetitors = identifyCompetitors(resp).val
               /\ profile[c].structuredData = generateStructuredData(raw).val
               /\ trail[c].narrative = "template" =>
                     profile[c].narratives.factual = FallbackNarrative(raw).val

\* a profile returned to a call during which another call, on a different
\* document, began and wrote this.extractedData
C28_Witness ==
    \E c \in Calls :
        /\ pc[c] = "done"
        /\ trail[c].overlapped
        /\ extractedData # c
        /\ \E x \in Calls \ {c} : trail[x].input \notin {NoData, trail[c].input}

-----------------------------------------------------------------------------
(* The Generate button and the results panel.  `vin` holds the clicks in     *)
(* order, each with its URL and the state of its generateProfile(url);      *)
(* `vout` is what the results panel shows.                                  *)

MaxClicks == 3

\* what the URL field may hold at a click: two product URLs, or nothing valid
Urls == {"https://shop.example/a", "https://shop.example/b"}
Typed == Urls \cup {""}

\* validateUrl(urlInput), for the inputs of the model
validateUrl(url) == url \in Urls

\* the panel before any click, and what the handlers write to it
Hidden == [shown |-> "hidden", request |-> 0, url |-> ""]
Panel(shown, request, url) == [shown |-> shown, request |-> request, url |-> url]

InitPanel ==
    /\ probe = "ok"
    /\ useAI = TRUE
    /\ clock = 0
    /\ cache = [k \in CacheKeys |-> NoEntry]
    /\ extractedData = "none"
    /\ pc = [c \in Calls |-> "idle"]
    /\ data = [c \in Calls |-> NoData]
    /\ net = [c \in Calls |-> NoRequest]
    /\ profile = [c \in Calls |-> NoProfile]
    /\ started = 0
    /\ trail = [c \in Calls |-> NoTrail]
    /\ origin = [k \in CacheKeys |-> Nobody]
    /\ vin = <<>>
    /\ vout = Hidden

PanelFrame ==
    UNCHANGED <<useAI, probe, clock, cache, extractedData, pc, data, net, profile,
                started, trail, origin>>

\* the click handler up to its await: an invalid URL is refused with an alert;
\* otherwise the panel shows the spinner and generateProfile(url) begins
Click(url) ==
    /\ Len(vin) < MaxClicks
    /\ IF ~validateUrl(url)
       THEN UNCHANGED <<vin, vout>>
       ELSE /\ vin' = Append(vin, [url |-> url, at |-> "pending"])
            /\ vout' = Panel("loading", Len(vin) + 1, url)
    /\ PanelFrame

\* generateProfile(url) of the i-th click resolves: displayProfile(profile)
DisplayProfile(i) ==
    /\ i \in 1..Len(vin)
    /\ vin[i].at = "pending"
    /\ vin' = [vin EXCEPT ![i].at = "displayed"]
    /\ vout' = Panel("profile", i, vin[i].url)
    /\ PanelFrame

\* generateProfile(url) of the i-th click rejects: displayError(error)
DisplayError(i) ==
    /\ i \in 1..Len(vin)
    /\ vin[i].at = "pending"
    /\ vin' = [vin EXCEPT ![i].at = "failed"]
    /\ vout' = Panel("error", i, vin[i].url)
    /\ PanelFrame

NextPanel ==
    \/ \E url \in Typed : Click(url)
    \/ \E i \in 1..MaxClicks : DisplayProfile(i)
    \/ \E i \in 1..MaxClicks : DisplayError(i)

SpecPanel == InitPanel /\ [][NextPanel]_vars

\* C27: when Generate was clicked for one URL and again for another before
\* the first request finished, the panel ends showing the profile (or the
\* error) of the latest request: once every request has completed, what the
\* panel shows is the result of the last click.
C27_PanelShowsLatestRequest ==
    (vin # <<>> /\ \A i \in 1..Len(vin) : vin[i].at # "pending") =>
        /\ vout.request = Len(vin)
        /\ vout.url = vin[Len(vin)].url
        /\ vout.shown = IF vin[Len(vin)].at = "displayed" THEN "profile" ELSE "error"

====
